---- MODULE Spec2Model ----
(***************************************************************************)
(* A model of the filelike package: the buffered base stream FileLikeBase, *)
(* the decorator FileWrapper and the wrappers FixedBlockSize,              *)
(* PadToBlockSize, UnPadToBlockSize and Buffer.                            *)
(*                                                                         *)
(* A byte is a one-character string, a byte string is a sequence of bytes. *)
(* A stream object is a record; the stream a wrapper wraps is its field    *)
(* fileobj, so a chain of wrappers is a nested record whose innermost      *)
(* record is a StringIO.  Every method is an operator from the object (and *)
(* the arguments) to a result [f, ret, err]: the object after the call,    *)
(* the value returned and the exception raised (NoErr when it returns).    *)
(***************************************************************************)
EXTENDS Integers, Sequences, FiniteSets, TLC

VARIABLES f, prev, ref, op, ret, refret, err, failed, out, nops

vars == <<f, prev, ref, op, ret, refret, err, failed, out, nops>>

(***************************************************************************)
(* Bounds of the model.                                                    *)
(***************************************************************************)
MaxOps == 3
MaxWrites == 3
MaxContent == 3
MaxBlock == 3
MaxRead == 2
MaxSched == 1
MaxChunk == 2
RecursionLimit == 3
LoopFuel == 12

(***************************************************************************)
(* Python values.                                                          *)
(***************************************************************************)
None == <<"None">>
NoMode == {"None"}
NoErr == "NoErr"
IOError == "IOError"
ValueError == "ValueError"
AssertionError == "AssertionError"
AttributeError == "AttributeError"
NotImplementedError == "NotImplementedError"
RuntimeError == "RuntimeError"
TypeError == "TypeError"
NUL == "0"
NL == "\n"

Ok(g, v) == [f |-> g, ret |-> v, err |-> NoErr]
Raise(g, e) == [f |-> g, ret |-> None, err |-> e]

Min(a, b) == IF a < b THEN a ELSE b
Max(a, b) == IF a > b THEN a ELSE b

\* bool(s) of a byte string or None
Truthy(s) == s # None /\ s # <<>>
\* the string itself, "" for None
Str(s) == IF s = None THEN <<>> ELSE s
\* the index i of a slice of a string of length n: negative counts from the end
Index(i, n) == IF i < 0 THEN Max(0, n + i) ELSE Min(i, n)
\* s[a:b]
Slice(s, a, b) == SubSeq(s, Index(a, Len(s)) + 1, Index(b, Len(s)))
\* s[a:]
From(s, a) == SubSeq(s, Index(a, Len(s)) + 1, Len(s))
\* c * n
Rep(c, n) == [i \in 1..n |-> c]
\* s.rfind(c), -1 when absent
RFind(s, c) == IF \E i \in 1..Len(s) : s[i] = c
               THEN (CHOOSE i \in 1..Len(s) : s[i] = c /\ \A j \in (i+1)..Len(s) : s[j] # c) - 1
               ELSE -1
\* s.find(c), -1 when absent
Find(s, c) == IF \E i \in 1..Len(s) : s[i] = c
              THEN (CHOOSE i \in 1..Len(s) : s[i] = c /\ \A j \in 1..(i-1) : s[j] # c) - 1
              ELSE -1
StartsWith(s, p) == Len(p) <= Len(s) /\ SubSeq(s, 1, Len(p)) = p

(***************************************************************************)
(* StringIO: the native random-access stream the wrappers are built over.  *)
(* calls counts the method calls the object has received, writes those of  *)
(* write, seeks those of seek and tell.                                    *)
(***************************************************************************)
StringIO(contents) == [kind |-> "StringIO", buf |-> contents, pos |-> 0,
                       closed |-> FALSE, calls |-> 0, writes |-> 0, seeks |-> 0]

Called(s) == [s EXCEPT !.calls = @ + 1]
\* s after a call of seek or tell
Sought(s) == [s EXCEPT !.calls = @ + 1, !.seeks = @ + 1]

StringIO_read(s, n) ==
    IF s.closed THEN Raise(Called(s), ValueError)
    ELSE LET newpos == IF n < 0 THEN Len(s.buf) ELSE Min(s.pos + n, Len(s.buf))
         IN Ok([Called(s) EXCEPT !.pos = newpos], Slice(s.buf, s.pos, newpos))

StringIO_write(s, d) ==
    IF s.closed THEN Raise(Called(s), ValueError)
    ELSE IF d = <<>> THEN Ok([Called(s) EXCEPT !.writes = @ + 1], None)
    ELSE LET padded == IF s.pos > Len(s.buf)
                       THEN s.buf \o Rep(NUL, s.pos - Len(s.buf)) ELSE s.buf
             newpos == s.pos + Len(d)
         IN Ok([Called(s) EXCEPT !.buf = Slice(padded, 0, s.pos) \o d \o From(padded, newpos),
                                 !.pos = newpos, !.writes = @ + 1], None)

StringIO_seek(s, pos, mode) ==
    IF s.closed THEN Raise(Sought(s), ValueError)
    ELSE LET p == IF mode = 1 THEN pos + s.pos
                  ELSE IF mode = 2 THEN pos + Len(s.buf) ELSE pos
         IN Ok([Sought(s) EXCEPT !.pos = Max(0, p)], None)

StringIO_tell(s) ==
    IF s.closed THEN Raise(Sought(s), ValueError) ELSE Ok(Sought(s), s.pos)

StringIO_flush(s) ==
    IF s.closed THEN Raise(Called(s), ValueError) ELSE Ok(Called(s), None)

StringIO_close(s) == Ok([Called(s) EXCEPT !.closed = TRUE], None)

(***************************************************************************)
(* Method dispatch.  read, write, seek, tell, flush and close are the      *)
(* public methods of an object, _read, _write, _seek and _tell the         *)
(* primitives of a FileLikeBase subclass.  The argument d is the number of *)
(* nested seek/flush frames the interpreter still allows.                  *)
(***************************************************************************)
RECURSIVE read(_, _, _), readline(_, _, _), write(_, _, _), seek(_, _, _, _)
RECURSIVE tell(_), flush(_, _), close(_, _), next(_, _)
RECURSIVE _read(_, _, _), _write(_, _, _, _), _seek(_, _, _, _), _tell(_)
RECURSIVE ReadAll(_, _, _, _), ReadSome(_, _, _, _, _), ReadlineLoop(_, _, _, _, _), DrainLines(_, _, _)

\* the rest K of a method after a call with result r: an exception propagates
Bind(r, K(_)) == IF r.err # NoErr THEN r ELSE K(r)

\* the result r of a call on g.fileobj, as a result of g
Inner(g, r) == [f |-> [g EXCEPT !.fileobj = r.f], ret |-> r.ret, err |-> r.err]

(***************************************************************************)
(* FileLikeBase                                                            *)
(***************************************************************************)
FileLikeBase_init(bufsize) ==
    [closed |-> FALSE, bufsize |-> bufsize, rbuffer |-> None, wbuffer |-> None,
     sbuffer |-> None, mode |-> NoMode]

_check_mode(g, mode) ==
    IF g.mode # NoMode
    THEN /\ (mode = "r" => ("r" \in g.mode \/ "+" \in g.mode))
         /\ (mode = "w" => ("w" \in g.mode \/ "a" \in g.mode))
    ELSE TRUE

\* _assert_mode raises IOError exactly when it yields FALSE; one that lets
\* every call through
_assert_mode_any(g, mode) == TRUE
_assert_mode(g, mode) ==
    IF g.mode # NoMode
    THEN /\ (mode = "r" => ("r" \in g.mode \/ "+" \in g.mode))
         /\ (mode = "w" => ("w" \in g.mode \/ "a" \in g.mode))
    ELSE TRUE

\* the string flush() hands to _write
Buffered(g) == (IF Truthy(g.sbuffer) THEN g.sbuffer ELSE <<>>)
               \o (IF Truthy(g.wbuffer) THEN g.wbuffer ELSE <<>>)

\* a flush() that hands what a flushing _write returned to _write again
FileLikeBase_flush_retrying(g, d) ==
    IF g.closed THEN Raise(g, IOError)
    ELSE IF ~_check_mode(g, "w") THEN Ok(g, None)
    ELSE IF Buffered(g) = <<>>
         THEN Ok([g EXCEPT !.sbuffer = IF Truthy(@) THEN None ELSE @, !.wbuffer = None], None)
    ELSE Bind(_write([g EXCEPT !.sbuffer = IF Truthy(@) THEN None ELSE @], Buffered(g), TRUE, d),
              LAMBDA r : IF ~Truthy(r.ret) THEN Ok([r.f EXCEPT !.wbuffer = None], None)
                         ELSE Bind(_write(r.f, r.ret, TRUE, d),
                                   LAMBDA r2 : IF Truthy(r2.ret) THEN Raise(r2.f, IOError)
                                               ELSE Ok([r2.f EXCEPT !.wbuffer = None], None)))
FileLikeBase_flush(g, d) ==
    IF g.closed THEN Raise(g, IOError)
    ELSE IF ~_check_mode(g, "w") THEN Ok(g, None)
    ELSE IF Buffered(g) = <<>>
         THEN Ok([g EXCEPT !.sbuffer = IF Truthy(@) THEN None ELSE @, !.wbuffer = None], None)
    ELSE Bind(_write([g EXCEPT !.sbuffer = IF Truthy(@) THEN None ELSE @], Buffered(g), TRUE, d),
              LAMBDA r : IF Truthy(r.ret) THEN Raise(r.f, IOError)
                         ELSE Ok([r.f EXCEPT !.wbuffer = None], None))

\* close() that flushes whether the file is closed or not
FileLikeBase_close_unguarded(g, d) ==
    Bind(flush(g, d), LAMBDA r : Ok([r.f EXCEPT !.closed = TRUE], None))
FileLikeBase_close(g, d) ==
    IF ~g.closed
    THEN Bind(flush(g, d), LAMBDA r : Ok([r.f EXCEPT !.closed = TRUE], None))
    ELSE Ok(g, None)

\* the position _tell() reported, adjusted for the data in the buffers
Adjusted(g, pos) == pos - (IF Truthy(g.rbuffer) THEN Len(g.rbuffer) ELSE 0)
                        + (IF Truthy(g.wbuffer) THEN Len(g.wbuffer) ELSE 0)
                        + (IF Truthy(g.sbuffer) THEN Len(g.sbuffer) ELSE 0)

\* tell() that forgets the shadow buffer
FileLikeBase_tell_noshadow(g) ==
    Bind(_tell(g), LAMBDA r : Ok(r.f, r.ret - (IF Truthy(r.f.rbuffer) THEN Len(r.f.rbuffer) ELSE 0)
                                            + (IF Truthy(r.f.wbuffer) THEN Len(r.f.wbuffer) ELSE 0)))
FileLikeBase_tell(g) == Bind(_tell(g), LAMBDA r : Ok(r.f, Adjusted(r.f, r.ret)))

\* for ln in self: pass
DrainLines(g, fuel, d) ==
    IF fuel = 0 THEN Raise(g, RuntimeError)
    ELSE Bind(readline(g, -1, d),
              LAMBDA r : IF r.ret = <<>> THEN r ELSE DrainLines(r.f, fuel - 1, d))

\* finally: self._sbuffer = sbuf, after the call _seek with result r
SeekFinally(r) == IF r.err # NoErr THEN Raise([r.f EXCEPT !.sbuffer = None], r.err)
                  ELSE Ok([r.f EXCEPT !.sbuffer = r.ret], None)

\* the position the simulated seek is relative to; one that takes the
\* position the primitive reports, whatever the whence
SeekBase_told(g, whence, d) == IF whence # 0 THEN tell(g) ELSE Ok(g, 0)
SeekBase(g, whence, d) ==
    IF whence = 1 THEN tell(g)
    ELSE IF whence = 2 THEN Bind(DrainLines(g, LoopFuel, d), LAMBDA dr : tell(dr.f))
    ELSE IF whence # 0 THEN Raise(g, ValueError)
    ELSE Ok(g, 0)

\* the absolute seek that ends the simulation, from the base position b
SeekAbsolute(b, offset, d) ==
    IF b.err # NoErr THEN SeekFinally(b)
    ELSE SeekFinally(_seek(b.f, b.ret + offset, 0, d))

\* the except NotImplementedError branch of seek
SeekSimulated(g, offset, whence, d) == SeekAbsolute(SeekBase(g, whence, d), offset, d)

\* the offset seek hands to _seek: adjusted for the read and shadow buffers
SeekOffset(g, offset, whence) ==
    offset - (IF whence = 1 /\ Truthy(g.rbuffer) THEN Len(g.rbuffer) ELSE 0)
           + (IF whence = 1 /\ Truthy(g.sbuffer) THEN Len(g.sbuffer) ELSE 0)

\* seek after the call _seek with result r
SeekTried(r, offset, whence, d) ==
    IF r.err = NotImplementedError THEN SeekSimulated(r.f, offset, whence, d)
    ELSE SeekFinally(r)

\* seek after its flush
SeekFlushed(g, offset, whence, d) ==
    IF SeekOffset(g, offset, whence) = 0 /\ whence = 1
    THEN Ok([g EXCEPT !.rbuffer = None, !.sbuffer = None], None)
    ELSE SeekTried(_seek([g EXCEPT !.rbuffer = None, !.sbuffer = None],
                         SeekOffset(g, offset, whence), whence, d),
                   SeekOffset(g, offset, whence), whence, d)

FileLikeBase_seek(g, offset, whence, d) ==
    IF d = 0 THEN Raise(g, RuntimeError)
    ELSE Bind(flush(g, d - 1), LAMBDA fl : SeekFlushed(fl.f, offset, whence, d - 1))

\* the loop of read() for size <= 0: primitive reads until None
ReadAll(g, data, fuel, d) ==
    IF fuel = 0 THEN Raise(g, RuntimeError)
    ELSE Bind(_read(g, -1, d),
              LAMBDA r : IF r.ret = None THEN Ok(r.f, data)
                         ELSE ReadAll(r.f, data \o r.ret, fuel - 1, d))

\* the loop of read() for size > 0: primitive reads while sizeSoFar < size
ReadSome(g, data, size, fuel, d) ==
    IF Len(data) >= size THEN Ok(g, data)
    ELSE IF fuel = 0 THEN Raise(g, RuntimeError)
    ELSE Bind(_read(g, size - Len(data), d),
              LAMBDA r : IF r.ret = None THEN Ok(r.f, data)
                         ELSE ReadSome(r.f, data \o r.ret, size, fuel - 1, d))

\* the end of read(): remove the data that accounts for the seek offset
StripShadow(g, output) ==
    IF Truthy(g.sbuffer)
    THEN IF ~StartsWith(output, g.sbuffer) THEN Raise(g, AssertionError)
         ELSE Ok([g EXCEPT !.sbuffer = None], From(output, Len(g.sbuffer)))
    ELSE Ok(g, output)

\* read() of size > 0 that forgets the bytes read beyond size
ReadSized_dropping(g, data, size) ==
    IF Len(data) > size
    THEN StripShadow([g EXCEPT !.rbuffer = <<>>], Slice(data, 0, size))
    ELSE StripShadow([g EXCEPT !.rbuffer = <<>>], data)
\* read() of size > 0 after its loop: too many bytes go to the read buffer
ReadSized(g, data, size) ==
    IF Len(data) > size
    THEN StripShadow([g EXCEPT !.rbuffer = From(data, size)], Slice(data, 0, size))
    ELSE StripShadow([g EXCEPT !.rbuffer = <<>>], data)

\* read() once the position is correct
ReadPositioned(g, size, d) ==
    IF size <= 0
    THEN Bind(ReadAll([g EXCEPT !.rbuffer = <<>>],
                      IF Truthy(g.rbuffer) THEN g.rbuffer ELSE <<>>, LoopFuel, d),
              LAMBDA r : StripShadow(r.f, r.ret))
    ELSE Bind(ReadSome(g, IF Truthy(g.rbuffer) THEN g.rbuffer ELSE <<>>,
                       size + (IF Truthy(g.sbuffer) THEN Len(g.sbuffer) ELSE 0), LoopFuel, d),
              LAMBDA r : ReadSized(r.f, r.ret,
                                   size + (IF Truthy(g.sbuffer) THEN Len(g.sbuffer) ELSE 0)))

FileLikeBase_read(g, size, d) ==
    IF g.closed THEN Raise(g, IOError)
    ELSE IF ~_assert_mode(g, "r") THEN Raise(g, IOError)
    ELSE Bind(IF g.wbuffer # None THEN seek(g, 0, 1, d) ELSE Ok(g, None),
              LAMBDA sk : ReadPositioned(sk.f, size, d))

\* readline() after its loop: bits = head + [last], indx the newline in last
ReadlineEnd(g, head, last, indx, size) ==
    IF indx = -1
    THEN IF size > 0 /\ Len(head) + Len(last) > size
         THEN Ok([g EXCEPT !.rbuffer = From(head \o last, size) \o @],
                 Slice(head \o last, 0, size))
         ELSE Ok(g, head \o last)
    ELSE Ok([g EXCEPT !.rbuffer = From(last, indx + 1) \o @], head \o Slice(last, 0, indx + 1))

\* the loop of readline()
ReadlineLoop(g, head, size, fuel, d) ==
    IF fuel = 0 THEN Raise(g, RuntimeError)
    ELSE Bind(read(g, g.bufsize, d),
              LAMBDA r : IF r.ret = <<>> \/ (size > 0 /\ Len(head) + Len(r.ret) >= size)
                         THEN ReadlineEnd(r.f, head, r.ret, -1, size)
                         ELSE IF Find(r.ret, NL) # -1
                         THEN ReadlineEnd(r.f, head, r.ret, Find(r.ret, NL), size)
                         ELSE ReadlineLoop(r.f, head \o r.ret, size, fuel - 1, d))

FileLikeBase_readline(g, size, d) == ReadlineLoop(g, <<>>, size, LoopFuel, d)

StopIteration == "StopIteration"

\* next() raises StopIteration for an empty line; one that returns it
FileLikeBase_next_endless(g, d) == readline(g, -1, d)
FileLikeBase_next(g, d) ==
    Bind(readline(g, -1, d), LAMBDA r : IF r.ret = <<>> THEN Raise(r.f, StopIteration) ELSE r)

\* [ln for ln in self]: next() until StopIteration
RECURSIVE CollectLines(_, _, _, _)
\* the list after the call next() with result r
Collected(r, lines, fuel, d) ==
    IF r.err = StopIteration THEN Ok(r.f, lines)
    ELSE Bind(r, LAMBDA ln : CollectLines(ln.f, Append(lines, ln.ret), fuel - 1, d))

CollectLines(g, lines, fuel, d) ==
    IF fuel = 0 THEN Raise(g, RuntimeError)
    ELSE Collected(next(g, d), lines, fuel, d)

FileLikeBase_readlines(g, d) == CollectLines(g, <<>>, LoopFuel, d)

\* the string write() hands to _write: the write buffer, the shadow buffer,
\* the new data (Pending_fresh forgets the write buffer)
Pending_fresh(g, string) ==
    (IF Truthy(g.sbuffer) THEN g.sbuffer ELSE <<>>) \o string
Pending(g, string) ==
    (IF Truthy(g.wbuffer) THEN g.wbuffer ELSE <<>>)
    \o (IF Truthy(g.sbuffer) THEN g.sbuffer ELSE <<>>) \o string

\* write() that does not look at closed
FileLikeBase_write_unchecked(g, string, d) ==
    IF ~_assert_mode(g, "w") THEN Raise(g, IOError)
    ELSE Bind(IF g.rbuffer # None THEN seek(g, 0, 1, d) ELSE Ok(g, None),
              LAMBDA sk :
                  Bind(_write([sk.f EXCEPT !.sbuffer = IF Truthy(@) THEN None ELSE @],
                              Pending(sk.f, string), FALSE, d),
                       LAMBDA r : Ok([r.f EXCEPT !.wbuffer = IF r.ret = None THEN <<>> ELSE r.ret],
                                     None)))
FileLikeBase_write(g, string, d) ==
    IF g.closed THEN Raise(g, IOError)
    ELSE IF ~_assert_mode(g, "w") THEN Raise(g, IOError)
    ELSE Bind(IF g.rbuffer # None THEN seek(g, 0, 1, d) ELSE Ok(g, None),
              LAMBDA sk :
                  Bind(_write([sk.f EXCEPT !.sbuffer = IF Truthy(@) THEN None ELSE @],
                              Pending(sk.f, string), FALSE, d),
                       LAMBDA r : Ok([r.f EXCEPT !.wbuffer = IF r.ret = None THEN <<>> ELSE r.ret],
                                     None)))

(***************************************************************************)
(* FileWrapper                                                             *)
(*                                                                         *)
(* self._fileobj is a native stream (StringIO) under every wrapper but     *)
(* UnPadToBlockSize, which is also read stacked on a PadToBlockSize: the   *)
(* calls its _read, _write, _seek and _tell make are dispatched on the     *)
(* class of the wrapped object, as are close() and flush(), which run down *)
(* the whole stack.                                                        *)
(***************************************************************************)
FileWrapper_init(kind, fileobj, mode) ==
    [FileLikeBase_init(1024) EXCEPT
         !.mode = IF mode # NoMode THEN mode
                  ELSE IF "mode" \in DOMAIN fileobj THEN fileobj.mode ELSE NoMode] @@
    [kind |-> kind, fileobj |-> fileobj]

FileWrapper(fileobj, mode) == FileWrapper_init("FileWrapper", fileobj, mode)

\* close() closes the wrapper, then the wrapped stream; one that closes the
\* wrapped stream first
FileWrapper_close_inner_first(g, d) ==
    Bind(Inner(g, close(g.fileobj, d)), LAMBDA r : FileLikeBase_close(r.f, d))
FileWrapper_close(g, d) ==
    Bind(FileLikeBase_close(g, d), LAMBDA r : Inner(r.f, close(r.f.fileobj, d)))

FileWrapper_flush(g, d) ==
    Bind(FileLikeBase_flush(g, d), LAMBDA r : Inner(r.f, flush(r.f.fileobj, d)))

\* "" from the wrapped stream is the end of the file
NoneIfEmpty(r) == IF r.err = NoErr /\ r.ret = <<>> THEN Ok(r.f, None) ELSE r

FileWrapper__read(g, sizehint, d) == NoneIfEmpty(Inner(g, StringIO_read(g.fileobj, sizehint)))

FileWrapper__write(g, string, flushing, d) == Inner(g, StringIO_write(g.fileobj, string))

\* _seek() that gets to an absolute offset by reading up to it from the start
FileWrapper__seek_rereading(g, offset, whence, d) ==
    IF whence # 0 THEN Inner(g, StringIO_seek(g.fileobj, offset, whence))
    ELSE Inner(g, Bind(StringIO_seek(g.fileobj, 0, 0),
                       LAMBDA r : Ok(StringIO_read(r.f, offset).f, None)))
FileWrapper__seek(g, offset, whence, d) == Inner(g, StringIO_seek(g.fileobj, offset, whence))

FileWrapper__tell(g) == Inner(g, StringIO_tell(g.fileobj))

(***************************************************************************)
(* A FileWrapper subclass whose primitives use the latitude their          *)
(* docstrings give: _read returns fewer or more bytes than hinted or no    *)
(* bytes at all (the lengths in sched, then what was asked for), _write    *)
(* accepts a prefix and returns the rest (the lengths in wsched,           *)
(* everything when flushing), _seek is absolute only and lands on a        *)
(* multiple of gran, returning the bytes between there and the offset.     *)
(* keeps is the number of bytes a flushing _write fails to write, against  *)
(* its docstring (0 unless said otherwise); handed lists the _write calls  *)
(* of the public call in progress.                                         *)
(***************************************************************************)
Primitive(fileobj, bufsize, gran) ==
    [FileWrapper_init("Primitive", fileobj, NoMode) EXCEPT !.bufsize = bufsize] @@
    [sched |-> <<>>, wsched |-> <<>>, gran |-> gran, keeps |-> 0, handed |-> <<>>]

\* a Primitive whose flushing _write returns the last keeps bytes unwritten
Reluctant(fileobj, bufsize, gran, keeps) ==
    [Primitive(fileobj, bufsize, gran) EXCEPT !.keeps = keeps]

Primitive__read(g, sizehint, d) ==
    IF g.sched = <<>> THEN FileWrapper__read(g, sizehint, d)
    ELSE IF Head(g.sched) = 0 THEN Ok([g EXCEPT !.sched = Tail(@)], <<>>)
    ELSE FileWrapper__read([g EXCEPT !.sched = Tail(@)], Head(g.sched), d)

\* the number of bytes of string the next _write accepts
Accepted(g, string, flushing) ==
    IF flushing THEN Max(0, Len(string) - g.keeps)
    ELSE IF g.wsched = <<>> THEN Len(string) ELSE Min(Head(g.wsched), Len(string))

Primitive__write(g, string, flushing, d) ==
    Bind(Inner([g EXCEPT !.wsched = IF flushing \/ @ = <<>> THEN @ ELSE Tail(@),
                         !.handed = Append(@, [string |-> string, flushing |-> flushing])],
               StringIO_write(g.fileobj, Slice(string, 0, Accepted(g, string, flushing)))),
         LAMBDA r : Ok(r.f, IF Accepted(g, string, flushing) = Len(string) THEN None
                            ELSE From(string, Accepted(g, string, flushing))))

\* the multiple of gran at or before offset
Boundary(g, offset) == offset - (offset % g.gran)

Primitive__seek(g, offset, whence, d) ==
    IF whence # 0 THEN Raise(g, NotImplementedError)
    ELSE IF offset < 0 \/ Boundary(g, offset) = offset
         THEN Inner(g, StringIO_seek(g.fileobj, offset, 0))
    ELSE Bind(Inner(g, StringIO_seek(g.fileobj, Boundary(g, offset), 0)), LAMBDA r1 :
         Bind(Inner(r1.f, StringIO_read(r1.f.fileobj, offset - Boundary(g, offset))), LAMBDA r2 :
              IF Len(r2.ret) < offset - Boundary(g, offset)
              THEN Inner(r2.f, StringIO_seek(r2.f.fileobj, offset, 0))
              ELSE Bind(Inner(r2.f, StringIO_seek(r2.f.fileobj, Boundary(g, offset), 0)),
                        LAMBDA r3 : Ok(r3.f, r2.ret))))

Primitive__tell(g) == Inner(g, StringIO_tell(g.fileobj))

(***************************************************************************)
(* FixedBlockSize.  issued is the list of the read and write requests the  *)
(* wrapper has sent to its inner stream during the current call: the size  *)
(* of each and whether it was sent by a flushing _write.                   *)
(***************************************************************************)
FixedBlockSize(fileobj, blocksize, mode) ==
    FileWrapper_init("FixedBlockSize", fileobj, mode) @@
    [blocksize |-> blocksize, issued |-> <<>>]

Issue(g, call, size, flushing) ==
    [g EXCEPT !.issued = Append(@, [call |-> call, size |-> size, flushing |-> flushing])]

FixedBlockSize__round_up(g, num) ==
    IF num % g.blocksize = 0 THEN num ELSE ((num \div g.blocksize) + 1) * g.blocksize

\* _round_down that rounds nothing
FixedBlockSize__round_down_identity(g, num) == num
FixedBlockSize__round_down(g, num) ==
    IF num % g.blocksize = 0 THEN num ELSE (num \div g.blocksize) * g.blocksize

\* the size _read asks the inner stream for
FixedBlockSize_sizehint(g, sizehint) ==
    IF sizehint >= 0 THEN FixedBlockSize__round_up(g, sizehint) ELSE sizehint

FixedBlockSize__read(g, sizehint, d) ==
    NoneIfEmpty(Inner(Issue(g, "read", FixedBlockSize_sizehint(g, sizehint), FALSE),
                      StringIO_read(g.fileobj, FixedBlockSize_sizehint(g, sizehint))))

\* the end of a flushing _write that fills the block with zero bytes
FixedBlockSize_pad_zeros(g, rest, nextBlock, d) ==
    Bind(Inner(Issue(g, "write", g.blocksize, TRUE),
               StringIO_write(g.fileobj, rest \o From(nextBlock, Len(rest))
                                \o Rep(NUL, g.blocksize - Max(Len(rest), Len(nextBlock))))),
         LAMBDA r : IF _check_mode(r.f, "r")
                    THEN Bind(seek(r.f, Len(rest) - r.f.blocksize, 1, d),
                              LAMBDA sk : Ok(sk.f, <<>>))
                    ELSE Ok(r.f, <<>>))
\* the end of a flushing _write: rest is data[size:], nextBlock what the
\* inner stream holds at the position
FixedBlockSize_pad(g, rest, nextBlock, d) ==
    Bind(Inner(Issue(g, "write", Len(rest \o From(nextBlock, Len(rest))), TRUE),
               StringIO_write(g.fileobj, rest \o From(nextBlock, Len(rest)))),
         LAMBDA r : IF _check_mode(r.f, "r")
                    THEN Bind(seek(r.f, Len(rest) - r.f.blocksize, 1, d),
                              LAMBDA sk : Ok(sk.f, <<>>))
                    ELSE Ok(r.f, <<>>))

\* a flushing _write after the whole blocks: try to pad with existing contents
FixedBlockSize_flushing(g, rest, d) ==
    IF _check_mode(g, "r")
    THEN Bind(Inner(Issue(g, "read", g.blocksize, TRUE), StringIO_read(g.fileobj, g.blocksize)),
              LAMBDA nb : Bind(Inner(nb.f, StringIO_seek(nb.f.fileobj, (0 - 1) * Len(nb.ret), 1)),
                               LAMBDA sk : FixedBlockSize_pad(sk.f, rest, nb.ret, d)))
    ELSE FixedBlockSize_pad(g, rest, <<>>, d)

FixedBlockSize__write(g, data, flushing, d) ==
    Bind(Inner(Issue(g, "write", FixedBlockSize__round_down(g, Len(data)), flushing),
               StringIO_write(g.fileobj, Slice(data, 0, FixedBlockSize__round_down(g, Len(data))))),
         LAMBDA r : IF Len(data) = FixedBlockSize__round_down(g, Len(data)) THEN Ok(r.f, <<>>)
                    ELSE IF ~flushing
                    THEN Ok(r.f, From(data, FixedBlockSize__round_down(g, Len(data))))
                    ELSE FixedBlockSize_flushing(
                             r.f, From(data, FixedBlockSize__round_down(g, Len(data))), d))

\* _seek once the block after the boundary has been read
FixedBlockSize_seeked(g, data, offset, boundary, d) ==
    Bind(IF offset - boundary - Len(data) > 0
         THEN Bind(Inner(g, StringIO_seek(g.fileobj, offset - boundary - Len(data), 1)),
                   LAMBDA r : Inner(r.f, StringIO_seek(r.f.fileobj,
                                              (0 - 1) * (offset - boundary - Len(data)), 1)))
         ELSE Ok(g, None),
         LAMBDA r : Bind(Inner(r.f, StringIO_seek(r.f.fileobj, (0 - 1) * Len(data), 1)),
                         LAMBDA sk : Ok(sk.f, Slice(data, 0, offset - boundary))))

\* _seek; one that leaves the wrapped stream at the offset itself
FixedBlockSize__seek_exact(g, offset, whence, d) ==
    IF whence # 0 THEN Raise(g, NotImplementedError)
    ELSE Bind(Inner(g, StringIO_seek(g.fileobj, offset, 0)), LAMBDA r : Ok(r.f, <<>>))
FixedBlockSize__seek(g, offset, whence, d) ==
    IF whence # 0 THEN Raise(g, NotImplementedError)
    ELSE Bind(Inner(g, StringIO_seek(g.fileobj, FixedBlockSize__round_down(g, offset), 0)),
              LAMBDA r : IF FixedBlockSize__round_down(g, offset) = offset THEN Ok(r.f, <<>>)
                         ELSE Bind(Inner(Issue(r.f, "read", g.blocksize, FALSE),
                                         StringIO_read(r.f.fileobj, g.blocksize)),
                                   LAMBDA rd : FixedBlockSize_seeked(
                                       rd.f, rd.ret, offset,
                                       FixedBlockSize__round_down(g, offset), d)))

(***************************************************************************)
(* PadToBlockSize                                                          *)
(***************************************************************************)
PadToBlockSize(fileobj, blocksize, mode) ==
    FileWrapper_init("PadToBlockSize", fileobj, mode) @@
    [blocksize |-> blocksize, pad_loc |-> None, pad_read |-> <<>>, pad_unread |-> <<>>]

_round_up(g, num) ==
    IF num % g.blocksize = 0 THEN num ELSE ((num \div g.blocksize) + 1) * g.blocksize

_round_down(g, num) ==
    IF num % g.blocksize = 0 THEN num ELSE (num \div g.blocksize) * g.blocksize

\* _padding that always fills a whole block
_padding_block(g, data) == <<"Z">> \o Rep("X", g.blocksize - 1)
_padding(g, data) == <<"Z">> \o Rep("X", _round_up(g, Len(data) + 1) - Len(data) - 1)

\* the size _read asks the inner stream for
PadToBlockSize_sizehint(g, sizehint) == IF sizehint > 0 THEN _round_up(g, sizehint) ELSE sizehint

\* _read after the read of the inner stream with result r
PadToBlockSize_padded(r, sizehint) ==
    IF sizehint < 0 \/ Len(r.ret) < sizehint
    THEN Bind(Inner(r.f, StringIO_tell(r.f.fileobj)),
              LAMBDA t : Ok([t.f EXCEPT !.pad_loc = t.ret, !.pad_unread = _padding(t.f, r.ret)],
                            r.ret))
    ELSE r

PadToBlockSize__read(g, sizehint, d) ==
    IF g.pad_unread # <<>>
    THEN Ok([g EXCEPT !.pad_read = @ \o g.pad_unread, !.pad_unread = <<>>], g.pad_unread)
    ELSE IF g.pad_read # <<>> THEN Ok(g, None)
    ELSE Bind(Inner(g, StringIO_read(g.fileobj, PadToBlockSize_sizehint(g, sizehint))),
              LAMBDA r : PadToBlockSize_padded(r, PadToBlockSize_sizehint(g, sizehint)))

\* whether string could contain the padding block
maybePad(g, string) ==
    /\ RFind(string, "Z") >= Len(string) - g.blocksize - 1
    /\ \A i \in (RFind(string, "Z") + 2)..Len(string) : string[i] = "X"

\* the number of bytes of string _write writes at once (and a size that
\* holds no candidate padding back)
PadToBlockSize_size_whole(g, string) == _round_down(g, Len(string))
PadToBlockSize_size(g, string) ==
    IF maybePad(g, string) THEN _round_down(g, RFind(string, "Z"))
    ELSE _round_down(g, Len(string))

\* the end of a flushing _write at the end of the file: remove the padding
PadToBlockSize_unpadded(g, string, leftover, d) ==
    IF maybePad(g, string)
    THEN Bind(Inner(g, StringIO_write(g.fileobj, Slice(leftover, 0, RFind(leftover, "Z")))),
              LAMBDA r : Ok(r.f, None))
    ELSE Ok(g, None)

\* a flushing _write in the middle of the file: a complete block is written
\* using the existing file contents
BlockCompleted(g, leftover, nextBlock, d) ==
    Bind(Inner(g, StringIO_write(g.fileobj, leftover \o From(nextBlock, Len(leftover)))),
         LAMBDA r : Bind(seek(r.f, Len(leftover) - Len(nextBlock), 1, d),
                         LAMBDA sk : Ok(sk.f, None)))

\* the next block of the inner stream, read and seeked back over
NextBlock(g, lenNB, d) ==
    Bind(Inner(g, StringIO_read(g.fileobj, lenNB)),
         LAMBDA nb : Bind(Inner(nb.f, StringIO_seek(nb.f.fileobj, (0 - 1) * Len(nb.ret), 1)),
                          LAMBDA sk : Ok(sk.f, nb.ret)))

PadToBlockSize_flushing(g, string, leftover, d) ==
    IF _check_mode(g, "r")
    THEN Bind(NextBlock(g, _round_up(g, Len(leftover)), d),
              LAMBDA nb : IF _round_up(g, Len(leftover)) = Len(nb.ret)
                          THEN BlockCompleted(nb.f, leftover, nb.ret, d)
                          ELSE PadToBlockSize_unpadded(nb.f, string, leftover, d))
    ELSE PadToBlockSize_unpadded(g, string, leftover, d)

PadToBlockSize__write(g, string, flushing, d) ==
    Bind(Inner(g, StringIO_write(g.fileobj, Slice(string, 0, PadToBlockSize_size(g, string)))),
         LAMBDA r : IF From(string, PadToBlockSize_size(g, string)) = <<>> THEN Ok(r.f, None)
                    ELSE IF ~flushing THEN Ok(r.f, From(string, PadToBlockSize_size(g, string)))
                    ELSE PadToBlockSize_flushing(
                             r.f, string, From(string, PadToBlockSize_size(g, string)), d))

\* _seek once data has been read from the start of the inner stream
PadToBlockSize_seeked(g, data, offset, d) ==
    IF Len(data) = offset
    THEN Bind(Inner(g, StringIO_seek(g.fileobj, _round_down(g, Len(data)) - offset, 1)),
              LAMBDA r : Ok(r.f, Slice(data, _round_down(g, Len(data)), offset)))
    ELSE Bind(Inner(g, StringIO_seek(g.fileobj, _round_down(g, Len(data)) - Len(data), 1)),
              LAMBDA r : Ok(r.f, From(data, _round_down(g, Len(data))) \o
                                 (IF offset - Len(data) <= Len(_padding(g, data))
                                  THEN Slice(_padding(g, data), 0, offset - Len(data))
                                  ELSE _padding(g, data))))

PadToBlockSize__seek(g, offset, whence, d) ==
    IF whence > 0 THEN Raise(g, NotImplementedError)
    ELSE Bind(Inner(g, StringIO_seek(g.fileobj, 0, 0)),
              LAMBDA r : Bind(Inner([r.f EXCEPT !.pad_unread = <<>>, !.pad_read = <<>>],
                                    StringIO_read(r.f.fileobj, offset)),
                              LAMBDA rd : PadToBlockSize_seeked(rd.f, rd.ret, offset, d)))

PadToBlockSize__tell(g) ==
    Bind(Inner(g, StringIO_tell(g.fileobj)), LAMBDA r : Ok(r.f, r.ret + Len(r.f.pad_read)))

(***************************************************************************)
(* UnPadToBlockSize                                                        *)
(***************************************************************************)
UnPadToBlockSize(fileobj, blocksize, mode) ==
    FileWrapper_init("UnPadToBlockSize", fileobj, mode) @@
    [blocksize |-> blocksize, pad_seen |-> <<>>]

\* the size _read asks the inner stream for
UnPadToBlockSize_sizehint(g, sizehint) ==
    IF sizehint >= 0 THEN _round_up(g, sizehint) ELSE sizehint

\* the end of _read: strip the pad if the data ends the file
UnPadToBlockSize_strip(g, data, sizehint, zIdx) ==
    IF data = <<>> THEN Ok(g, None)
    ELSE IF sizehint < 0 \/ Len(data) < sizehint
         THEN IF zIdx < 0
              THEN IF Len(data) <= g.blocksize THEN Ok(g, None) ELSE Raise(g, AssertionError)
              ELSE Ok([g EXCEPT !.pad_seen = From(data, zIdx)], Slice(data, 0, zIdx))
    ELSE Ok(g, data)

\* the loop of _read: read far enough ahead to find the pad
RECURSIVE ReadAhead(_, _, _, _, _, _)
ReadAhead(g, data, sizehint, zIdx, fuel, d) ==
    IF ~(zIdx >= Len(data) - g.blocksize - 1)
    THEN UnPadToBlockSize_strip(g, data, sizehint, zIdx)
    ELSE IF fuel = 0 THEN Raise(g, RuntimeError)
    ELSE Bind(Inner(g, read(g.fileobj, g.blocksize, d)),
              LAMBDA nd : IF nd.ret = <<>>
                          THEN UnPadToBlockSize_strip(nd.f, data, sizehint + g.blocksize,
                                                      RFind(data, "Z"))
                          ELSE ReadAhead(nd.f, data \o nd.ret, sizehint + g.blocksize,
                                         RFind(data \o nd.ret, "Z"), fuel - 1, d))

\* _read once data and zIdx are known: zIdx is not looked up again
UnPadToBlockSize_near(g, data, sizehint, zIdx, d) ==
    IF zIdx >= 0 THEN ReadAhead(g, data, sizehint, zIdx, LoopFuel, d)
    ELSE UnPadToBlockSize_strip(g, data, sizehint, zIdx)

\* _read after the read of the inner stream with result r
UnPadToBlockSize_data(r, sizehint, d) ==
    IF sizehint >= 0
    THEN IF r.ret = Rep("X", r.f.blocksize)
         THEN Bind(Inner(r.f, read(r.f.fileobj, r.f.blocksize, d)),
                   LAMBDA nd : UnPadToBlockSize_near(nd.f, r.ret \o nd.ret,
                                                     sizehint + r.f.blocksize,
                                                     RFind(r.ret, "Z"), d))
         ELSE UnPadToBlockSize_near(r.f, r.ret, sizehint, RFind(r.ret, "Z"), d)
    ELSE UnPadToBlockSize_strip(r.f, r.ret, sizehint, RFind(r.ret, "Z"))

UnPadToBlockSize__read(g, sizehint, d) ==
    Bind(Inner(g, read(g.fileobj, UnPadToBlockSize_sizehint(g, sizehint), d)),
         LAMBDA r : UnPadToBlockSize_data(r, UnPadToBlockSize_sizehint(g, sizehint), d))

\* a flushing _write at the end of the file: the data is padded
UnPadToBlockSize_padded(g, leftover, d) ==
    Bind(Inner(g, write(g.fileobj, leftover \o _padding(g, leftover), d)),
         LAMBDA r : Ok([r.f EXCEPT !.pad_seen = _padding(g, leftover)], None))

UnPadToBlockSize_flushing(g, leftover, d) ==
    IF _check_mode(g, "r")
    THEN Bind(NextBlock(g, _round_up(g, Len(leftover)), d),
              LAMBDA nb : IF _round_up(g, Len(leftover)) = Len(nb.ret)
                          THEN BlockCompleted(nb.f, leftover, nb.ret, d)
                          ELSE UnPadToBlockSize_padded(nb.f, leftover, d))
    ELSE UnPadToBlockSize_padded(g, leftover, d)

UnPadToBlockSize__write(g, data, flushing, d) ==
    Bind(Inner(g, write(g.fileobj, Slice(data, 0, _round_down(g, Len(data))), d)),
         LAMBDA r : IF ~flushing THEN Ok(r.f, From(data, _round_down(g, Len(data))))
                    ELSE UnPadToBlockSize_flushing(r.f, From(data, _round_down(g, Len(data))), d))

\* the end of _seek: data has been read, eof is the pad, offset where to go
UnPadToBlockSize_seeked(g, data, offset, d) ==
    Bind(Inner(g, seek(g.fileobj, _round_down(g, offset) - Len(data), 1, d)),
         LAMBDA r : Ok(r.f, Slice(data, _round_down(g, offset), offset)))

\* _seek when the offset may be in the pad: read on to see where the pad is
UnPadToBlockSize_extra(g, data, offset, d) ==
    Bind(Inner(g, read(g.fileobj, g.blocksize + 1, d)),
         LAMBDA ex : UnPadToBlockSize_seeked(
                         ex.f, data \o ex.ret,
                         IF Len(ex.ret) <= g.blocksize /\ RFind(data \o ex.ret, "Z") < offset
                         THEN RFind(data \o ex.ret, "Z") ELSE offset, d))

UnPadToBlockSize__seek(g, offset, whence, d) ==
    IF whence > 0 THEN Raise(g, NotImplementedError)
    ELSE Bind(Inner(g, seek(g.fileobj, 0, 0, d)),
              LAMBDA r : Bind(Inner([r.f EXCEPT !.pad_seen = <<>>], read(r.f.fileobj, offset, d)),
                              LAMBDA rd :
                                  IF Len(rd.ret) < offset
                                  THEN UnPadToBlockSize_seeked(rd.f, rd.ret, RFind(rd.ret, "Z"), d)
                                  ELSE IF RFind(rd.ret, "Z") > Len(rd.ret) - g.blocksize - 1
                                  THEN UnPadToBlockSize_extra(rd.f, rd.ret, offset, d)
                                  ELSE UnPadToBlockSize_seeked(rd.f, rd.ret, offset, d)))

UnPadToBlockSize__tell(g) ==
    Bind(Inner(g, tell(g.fileobj)), LAMBDA r : Ok(r.f, r.ret - Len(r.f.pad_seen)))

(***************************************************************************)
(* Buffer.  The temporary file that holds the contents is a native         *)
(* random-access stream, buffer.                                           *)
(***************************************************************************)
ChunkSize == 16384

Buffer(fileobj, mode) ==
    FileWrapper_init("Buffer", fileobj, mode) @@
    [buffer |-> StringIO(<<>>), in_eof |-> FALSE, in_pos |-> 0]

\* the result r of a call on g.buffer, as a result of g
InBuffer(g, r) == [f |-> [g EXCEPT !.buffer = r.f], ret |-> r.ret, err |-> r.err]

\* the loop of _read_rest: data is what the last read of the inner stream returned
RECURSIVE ReadRestLoop(_, _, _, _)
ReadRestLoop(g, data, fuel, d) ==
    IF data = <<>> THEN Ok(g, None)
    ELSE IF fuel = 0 THEN Raise(g, RuntimeError)
    ELSE Bind(InBuffer([g EXCEPT !.in_pos = @ + Len(data)], StringIO_write(g.buffer, data)),
              LAMBDA w : Bind(Inner(w.f, StringIO_read(w.f.fileobj, w.f.bufsize)),
                              LAMBDA rd : ReadRestLoop(rd.f, rd.ret, fuel - 1, d)))

Buffer__read_rest(g, d) ==
    IF g.in_eof THEN Ok(g, None)
    ELSE Bind(InBuffer(g, StringIO_seek(StringIO_tell(g.buffer).f, 0, 2)),
         LAMBDA sk : Bind(Inner(sk.f, StringIO_read(sk.f.fileobj, sk.f.bufsize)),
         LAMBDA rd : Bind(ReadRestLoop(rd.f, rd.ret, LoopFuel, d),
         LAMBDA lp : InBuffer([lp.f EXCEPT !.in_eof = TRUE],
                              StringIO_seek(lp.f.buffer, g.buffer.pos, 0)))))

\* for chunk in self._buffer_chunks(): self._fileobj.write(chunk)
WriteChunks(g, d) ==
    Bind(InBuffer(g, StringIO_read(g.buffer, ChunkSize)),
         LAMBDA ch : Bind(Inner(ch.f, StringIO_write(ch.f.fileobj, ch.ret)),
                          LAMBDA w : IF ch.ret = <<>> THEN Ok(w.f, None)
                                     ELSE InBuffer(w.f, StringIO_read(w.f.buffer, ChunkSize))))

\* _write_out_buffer of a readable file, once the rest has been read
WriteOutReadable(g, d) ==
    IF g.mode = NoMode THEN Raise(g, AttributeError)
    ELSE IF "a" \in g.mode
    THEN Bind(InBuffer(g, StringIO_seek(g.buffer, g.in_pos, 0)),
              LAMBDA b : Inner(b.f, StringIO_seek(b.f.fileobj, b.f.in_pos, 0)))
    ELSE Bind(Inner(g, StringIO_seek(g.fileobj, 0, 0)),
              LAMBDA i : InBuffer(i.f, StringIO_seek(i.f.buffer, 0, 0)))

Buffer__write_out_buffer(g, d) ==
    Bind(IF _check_mode(g, "r")
         THEN Bind(Buffer__read_rest(g, d), LAMBDA rr : WriteOutReadable(rr.f, d))
         ELSE InBuffer(g, StringIO_seek(g.buffer, 0, 0)),
         LAMBDA r : WriteChunks(r.f, d))

\* flush only flushes the temporary file; one that writes it out
Buffer_flush_writing(g, d) == Buffer__write_out_buffer(g, d)
Buffer_flush(g, d) == InBuffer(g, StringIO_flush(g.buffer))

Buffer_close(g, d) ==
    IF g.closed THEN Ok(g, None)
    ELSE Bind(IF _check_mode(g, "w") THEN Buffer__write_out_buffer(g, d) ELSE Ok(g, None),
              LAMBDA r : FileWrapper_close(r.f, d))

\* _read when the buffer holds no more data: look in the underlying file
Buffer_underlying(g, sizehint, d) ==
    IF g.in_eof THEN Ok(g, None)
    ELSE Bind(Inner(g, StringIO_read(g.fileobj, sizehint)),
              LAMBDA r : Bind(InBuffer([r.f EXCEPT !.in_eof = @ \/ sizehint < 0
                                                                \/ Len(r.ret) < sizehint,
                                                  !.in_pos = @ + Len(r.ret)],
                                       StringIO_write(r.f.buffer, r.ret)),
                              LAMBDA w : Ok(w.f, r.ret)))

Buffer__read(g, sizehint, d) ==
    Bind(InBuffer(g, StringIO_read(g.buffer, sizehint)),
         LAMBDA r : IF r.ret # <<>> THEN r ELSE Buffer_underlying(r.f, sizehint, d))

\* _write once the data is in the buffer: skip the same data in the file
Buffer_junk(g, diff, d) ==
    IF diff > 0
    THEN Bind(Inner(g, StringIO_read(g.fileobj, diff)),
              LAMBDA j : Ok([j.f EXCEPT !.in_pos = @ + Len(j.ret),
                                        !.in_eof = @ \/ Len(j.ret) < diff], None))
    ELSE Ok(g, None)

Buffer__write(g, data, flushing, d) ==
    Bind(InBuffer(g, StringIO_write(g.buffer, data)),
         LAMBDA w : IF _check_mode(w.f, "r") /\ ~w.f.in_eof
                    THEN Bind(InBuffer(w.f, StringIO_tell(w.f.buffer)),
                              LAMBDA t : Buffer_junk(t.f, t.ret - t.f.in_pos, d))
                    ELSE Ok(w.f, None))

\* whether _seek has to read the rest of the file first
PastInput(g, offset, whence) ==
    \/ whence = 0 /\ offset > g.in_pos
    \/ whence = 1 /\ g.buffer.pos + offset > g.in_pos
    \/ whence = 2

Buffer__seek(g, offset, whence, d) ==
    Bind(IF _check_mode(g, "r") /\ ~g.in_eof /\ PastInput(g, offset, whence)
         THEN Buffer__read_rest(g, d) ELSE Ok(g, None),
         LAMBDA r : InBuffer(r.f, StringIO_seek(r.f.buffer, offset, whence)))

Buffer__tell(g) == InBuffer(g, StringIO_tell(g.buffer))

(***************************************************************************)
(* Translation functions: plain functions from byte strings to byte        *)
(* strings, without a flush attribute.  rot13 is its own inverse, shift    *)
(* and unshift are inverses of each other; all three translate byte by     *)
(* byte.  reverse is its own inverse and translates the string as a whole. *)
(***************************************************************************)
rot13(c) ==
    CASE c = "a" -> "n" [] c = "n" -> "a" [] c = "b" -> "o" [] c = "o" -> "b"
      [] c = "c" -> "p" [] c = "p" -> "c" [] OTHER -> c

shift(c) == CASE c = "a" -> "b" [] c = "b" -> "c" [] c = "c" -> "a" [] OTHER -> c

unshift(c) == CASE c = "b" -> "a" [] c = "c" -> "b" [] c = "a" -> "c" [] OTHER -> c

Bytewise == {"noop", "rot13", "shift", "unshift"}

\* func(string)
Apply(func, string) ==
    CASE func = "noop" -> string
      [] func = "rot13" -> [i \in 1..Len(string) |-> rot13(string[i])]
      [] func = "shift" -> [i \in 1..Len(string) |-> shift(string[i])]
      [] func = "unshift" -> [i \in 1..Len(string) |-> unshift(string[i])]
      [] func = "reverse" -> [i \in 1..Len(string) |-> string[Len(string) + 1 - i]]
      [] func = "trailer" -> string

\* the function that undoes func
Inverse(func) ==
    CASE func = "shift" -> "unshift" [] func = "unshift" -> "shift" [] OTHER -> func

(***************************************************************************)
(* Translate.  applied counts the calls of the translation functions.  The *)
(* chunk size _seek reads with, self._bufsize, is given to the constructor *)
(* so that streams longer than a chunk can be modelled.                    *)
(***************************************************************************)
Translate(fileobj, mode, rfunc, wfunc, bufsize) ==
    [FileWrapper_init("Translate", fileobj, mode) EXCEPT !.bufsize = bufsize] @@
    [rfunc |-> rfunc, wfunc |-> wfunc, pos |-> 0, applied |-> 0, flushed |-> 0, state |-> 0]

\* the function "trailer" has a flush attribute, which returns 'T' at its
\* first call and '' afterwards; flushed counts its calls.  The other
\* functions have no flush attribute
Translate__flush_rfunc(g) ==
    IF g.rfunc = "trailer"
    THEN Ok([g EXCEPT !.flushed = @ + 1], IF g.flushed = 0 THEN <<"T">> ELSE <<>>)
    ELSE Ok(g, None)

Translate__flush_wfunc(g) == Ok(g, None)

Translate_flush(g, d) ==
    Bind(Translate__flush_wfunc(g),
         LAMBDA data : Bind(IF data.ret # None
                            THEN Inner(data.f, StringIO_write(data.f.fileobj, data.ret))
                            ELSE data,
                            LAMBDA w : FileWrapper_flush(w.f, d)))

\* the stateful function "feedback" applied to string when it has seen
\* state bytes (modulo 2) since it was made or reset: it translates every
\* second byte by rot13
Feedback(state, string) ==
    [i \in 1..Len(string) |-> IF (state + i) % 2 = 0 THEN rot13(string[i]) ELSE string[i]]

\* self._rfunc(data)
Translate_rfunc(g, data) ==
    IF g.rfunc = "feedback" THEN Feedback(g.state, data) ELSE Apply(g.rfunc, data)

\* _read once the wrapped stream has returned r.ret
Translate_translated(r) ==
    IF r.ret = <<>>
    THEN Bind(Translate__flush_rfunc(r.f),
              LAMBDA t : IF ~Truthy(t.ret) THEN Ok(t.f, None)
                         ELSE Ok([t.f EXCEPT !.pos = @ + Len(t.ret)], t.ret))
    ELSE Ok([r.f EXCEPT !.pos = @ + Len(Translate_rfunc(r.f, r.ret)), !.applied = @ + 1,
                        !.state = IF r.f.rfunc = "feedback" THEN (@ + Len(r.ret)) % 2 ELSE @],
            Translate_rfunc(r.f, r.ret))

Translate__read(g, sizehint, d) ==
    Bind(Inner(g, StringIO_read(g.fileobj, sizehint)), LAMBDA r : Translate_translated(r))

\* _write (and a _write that passes the data on untranslated)
Translate__write_raw(g, data, flushing, d) ==
    Inner([g EXCEPT !.pos = @ + Len(data)], StringIO_write(g.fileobj, data))
Translate__write(g, data, flushing, d) ==
    Inner([g EXCEPT !.pos = @ + Len(data), !.applied = @ + 1],
          StringIO_write(g.fileobj, Apply(g.wfunc, data)))

Translate__tell(g) == Ok(g, g.pos)

\* while len(sbuf) < offset: sbuf = self._read(self._bufsize)
RECURSIVE Translate_reread(_, _, _, _, _)
Translate_reread(g, sbuf, offset, fuel, d) ==
    IF sbuf = None THEN Raise(g, TypeError)
    ELSE IF ~(Len(sbuf) < offset) THEN Ok(g, sbuf)
    ELSE IF fuel = 0 THEN Raise(g, RuntimeError)
    ELSE Bind(Translate__read(g, g.bufsize, d),
              LAMBDA r : Translate_reread(r.f, r.ret, offset, fuel - 1, d))

Translate__seek(g, offset, whence, d) ==
    IF whence > 0 THEN Raise(g, NotImplementedError)
    ELSE Bind(Inner(g, StringIO_seek(g.fileobj, 0, 0)),
         LAMBDA r : Bind(Translate_reread([r.f EXCEPT !.pos = 0], <<>>, offset, LoopFuel, d),
         LAMBDA sb : Bind(Inner(sb.f, StringIO_seek(sb.f.fileobj, 0, 0)),
         LAMBDA b : Ok([b.f EXCEPT !.pos = 0], Slice(sb.ret, 0, offset)))))

(***************************************************************************)
(* BytewiseTranslate.  _seek and _tell are those of FileWrapper.           *)
(***************************************************************************)
BytewiseTranslate(fileobj, mode, rfunc, wfunc) ==
    FileWrapper_init("BytewiseTranslate", fileobj, mode) @@
    [rfunc |-> rfunc, wfunc |-> wfunc, applied |-> 0]

BytewiseTranslate__read(g, sizehint, d) ==
    Bind(Inner(g, StringIO_read(g.fileobj, sizehint)),
         LAMBDA r : IF r.ret = <<>> THEN Ok(r.f, None)
                    ELSE Ok([r.f EXCEPT !.applied = @ + 1], Apply(r.f.rfunc, r.ret)))

BytewiseTranslate__write(g, data, flushing, d) ==
    Inner([g EXCEPT !.applied = @ + 1], StringIO_write(g.fileobj, Apply(g.wfunc, data)))

(***************************************************************************)
(* Slice: the portion [start, stop) of the wrapped stream.  bounded is     *)
(* whether stop is given (stop is not None); stop counts only then.        *)
(***************************************************************************)
\* Slice(fileobj, start, stop, mode, resizable), stop = None as bounded = FALSE
Slice_placed(g, start, bounded, stop, resizable) ==
    [g EXCEPT !.fileobj = StringIO_seek(@, start, 0).f] @@
    [start |-> start, bounded |-> bounded, stop |-> stop, resizable |-> resizable]

\* a negative stop counts from the end of the wrapped stream
Slice_created(fileobj, start, bounded, stop, mode, resizable) ==
    IF bounded /\ stop < 0
    THEN Slice_placed(FileWrapper_init("Slice", StringIO_tell(StringIO_seek(fileobj, 0, 2).f).f, mode),
                      start, TRUE, Len(fileobj.buf) + stop, resizable)
    ELSE Slice_placed(FileWrapper_init("Slice", fileobj, mode), start, bounded, stop, resizable)

Slice_init(fileobj, start, bounded, stop, mode, resizable) ==
    IF "a" \in Slice_created(fileobj, start, bounded, stop, mode, resizable).mode
    THEN seek(Slice_created(fileobj, start, bounded, stop, mode, resizable), 0, 2, RecursionLimit).f
    ELSE Slice_created(fileobj, start, bounded, stop, mode, resizable)

\* the size _read() asks the wrapped stream for, at position pos; a _read()
\* that passes on the size it was given
Slice_size_given(g, pos, size) == size
Slice_size(g, pos, size) ==
    IF g.bounded /\ (size < 0 \/ pos + size > g.stop) THEN g.stop - pos ELSE size

Slice_reading(g, size) ==
    IF size = 0 THEN Ok(g, None) ELSE NoneIfEmpty(Inner(g, StringIO_read(g.fileobj, size)))

Slice__read(g, size, d) ==
    Bind(Inner(g, StringIO_tell(g.fileobj)),
         LAMBDA t : Slice_reading(t.f, Slice_size(t.f, t.ret, size)))

\* _write() of a bounded slice at position pos; a _write() that writes all
\* of the data before it raises, and one that leaves stop where it is
Slice_writing_whole(g, pos, data) ==
    IF pos + Len(data) > g.stop /\ ~g.resizable
    THEN Bind(Inner(g, StringIO_write(g.fileobj, data)), LAMBDA w : Raise(w.f, IOError))
    ELSE Inner([g EXCEPT !.stop = Max(@, pos + Len(data))], StringIO_write(g.fileobj, data))
Slice_writing_fixed(g, pos, data) ==
    IF pos + Len(data) > g.stop /\ ~g.resizable
    THEN Bind(Inner(g, StringIO_write(g.fileobj, Slice(data, 0, g.stop - pos))),
              LAMBDA w : Raise(w.f, IOError))
    ELSE Inner(g, StringIO_write(g.fileobj, data))
Slice_writing(g, pos, data) ==
    IF pos + Len(data) > g.stop
    THEN IF g.resizable
         THEN Inner([g EXCEPT !.stop = pos + Len(data)], StringIO_write(g.fileobj, data))
         ELSE Bind(Inner(g, StringIO_write(g.fileobj, Slice(data, 0, g.stop - pos))),
                   LAMBDA w : Raise(w.f, IOError))
    ELSE Inner(g, StringIO_write(g.fileobj, data))

Slice__write(g, data, flushing, d) ==
    IF ~g.bounded THEN Inner(g, StringIO_write(g.fileobj, data))
    ELSE Bind(Inner(g, StringIO_tell(g.fileobj)), LAMBDA t : Slice_writing(t.f, t.ret, data))

\* _seek(offset, 0) after offset = offset + self.start
Slice_absolute(g, offset) ==
    IF g.bounded /\ Max(offset, g.start) > g.stop
    THEN IF g.resizable
         THEN Inner([g EXCEPT !.stop = Max(offset, g.start)],
                    StringIO_seek(g.fileobj, Max(offset, g.start), 0))
         ELSE Inner(g, StringIO_seek(g.fileobj, g.stop, 0))
    ELSE Inner(g, StringIO_seek(g.fileobj, Max(offset, g.start), 0))

Slice_set(g, offset) == Slice_absolute(g, offset + g.start)

\* the offset _seek(offset, 1) passes on at position pos
Slice_floor(g, pos, offset) == IF pos + offset < g.start THEN g.start - pos ELSE offset

Slice_relative(g, pos, offset) ==
    IF g.bounded /\ pos + Slice_floor(g, pos, offset) > g.stop
    THEN g.stop - pos ELSE Slice_floor(g, pos, offset)

\* _seek(offset, 2) of a slice without stop
Slice_from_end(g, offset) ==
    Bind(Inner(g, StringIO_seek(g.fileobj, offset, 2)),
         LAMBDA s : IF offset >= 0 THEN s
                    ELSE Bind(Inner(s.f, StringIO_tell(s.f.fileobj)),
                              LAMBDA t : IF t.ret < g.start
                                         THEN Inner(t.f, StringIO_seek(t.f.fileobj, g.start, 0))
                                         ELSE Ok(t.f, None)))

Slice__seek(g, offset, whence, d) ==
    CASE whence = 0 -> Slice_set(g, offset)
      [] whence = 1 ->
             Bind(Inner(g, StringIO_tell(g.fileobj)),
                  LAMBDA t : Inner(t.f, StringIO_seek(t.f.fileobj,
                                                      Slice_relative(t.f, t.ret, offset), 1)))
      [] whence = 2 ->
             IF ~g.bounded THEN Slice_from_end(g, offset)
             ELSE IF offset > 0 /\ ~g.resizable THEN Slice_set(g, g.stop - g.start)
             ELSE Slice_set(g, g.stop + offset - g.start)
      [] OTHER -> Raise(g, ValueError)

Slice__tell(g) ==
    Bind(Inner(g, StringIO_tell(g.fileobj)), LAMBDA t : Ok(t.f, t.ret - g.start))

(***************************************************************************)
(* Head.  bytes=None is hasBytes = FALSE, lines=None is hasLines = FALSE.  *)
(***************************************************************************)
Head_init(fileobj, mode, hasBytes, bytes, hasLines, lines) ==
    FileWrapper_init("Head", fileobj, mode) @@
    [hasBytes |-> hasBytes, maxBytes |-> bytes, hasLines |-> hasLines, maxLines |-> lines,
     bytesR |-> 0, linesR |-> 0, bytesW |-> 0, linesW |-> 0,
     finishedR |-> FALSE, finishedW |-> FALSE]

\* data.count("\n")
Count(data) == Cardinality({i \in 1..Len(data) : data[i] = NL})

\* the index in data of its k-th newline, from 0
NthNewline(data, k) ==
    (CHOOSE i \in 1..Len(data) : data[i] = NL /\ Count(SubSeq(data, 1, i)) = k) - 1

\* "\n".join(data.split("\n")[:limit])
JoinFirst(data, limit) ==
    IF limit = 0 THEN <<>>
    ELSE IF Count(data) >= limit THEN Slice(data, 0, NthNewline(data, limit))
    ELSE data

\* the data cut at the line limit: the joined lines, and a newline if lines
\* were dropped
CutLines(data, limit) ==
    IF Count(data) + 1 > limit THEN JoinFirst(data, limit) \o <<NL>> ELSE JoinFirst(data, limit)

\* the data cut at the byte limit, if it is reached
CutBytes(hasBytes, maxBytes, sofar, data) ==
    IF hasBytes /\ sofar + Len(data) >= maxBytes THEN Slice(data, 0, maxBytes - sofar) ELSE data

\* _read once data, not empty, has come from the wrapped stream; cut is the
\* data after the byte limit
Head_limited(g, data, cut) ==
    IF g.hasLines /\ g.linesR + Count(cut) >= g.maxLines
    THEN Ok([g EXCEPT !.finishedR = TRUE, !.bytesR = @ + Len(data), !.linesR = @ + Count(cut)],
            CutLines(cut, g.maxLines - g.linesR))
    ELSE Ok([g EXCEPT !.finishedR = @ \/ (g.hasBytes /\ g.bytesR + Len(data) >= g.maxBytes),
                      !.bytesR = @ + Len(data), !.linesR = @ + Count(cut)], cut)

Head__read(g, sizehint, d) ==
    IF g.finishedR THEN Ok(g, None)
    ELSE Bind(Inner(g, StringIO_read(g.fileobj, IF sizehint <= 0 \/ sizehint > g.bufsize
                                                THEN g.bufsize ELSE sizehint)),
              LAMBDA r : IF r.ret = <<>> THEN Ok([r.f EXCEPT !.finishedR = TRUE], <<>>)
                         ELSE Head_limited(r.f, r.ret,
                                           CutBytes(g.hasBytes, g.maxBytes, g.bytesR, r.ret)))

\* the data _write passes on: the line limit only when the byte limit is not reached
Head_passed(g, data) ==
    IF g.hasBytes /\ g.bytesW + Len(data) >= g.maxBytes
    THEN Slice(data, 0, g.maxBytes - g.bytesW)
    ELSE IF g.hasLines /\ g.linesW + Count(data) >= g.maxLines
    THEN CutLines(data, g.maxLines - g.linesW)
    ELSE data

Head__write(g, data, flushing, d) ==
    IF g.finishedW THEN Ok(g, None)
    ELSE Bind(Inner([g EXCEPT !.finishedW = \/ (g.hasBytes /\ g.bytesW + Len(data) >= g.maxBytes)
                                            \/ (g.hasLines /\ g.linesW + Count(data) >= g.maxLines),
                              !.bytesW = @ + Len(data), !.linesW = @ + Count(data)],
                    StringIO_write(g.fileobj, Head_passed(g, data))),
              LAMBDA r : Ok(r.f, None))

(***************************************************************************)
(* Dispatch on the class of the object.                                    *)
(***************************************************************************)
read(o, n, d) == IF o.kind = "StringIO" THEN StringIO_read(o, n) ELSE FileLikeBase_read(o, n, d)

readline(o, size, d) == FileLikeBase_readline(o, size, d)

next(o, d) == FileLikeBase_next(o, d)

write(o, s, d) == IF o.kind = "StringIO" THEN StringIO_write(o, s) ELSE FileLikeBase_write(o, s, d)

seek(o, offset, whence, d) ==
    IF o.kind = "StringIO" THEN StringIO_seek(o, offset, whence)
    ELSE FileLikeBase_seek(o, offset, whence, d)

tell(o) == IF o.kind = "StringIO" THEN StringIO_tell(o) ELSE FileLikeBase_tell(o)

flush(o, d) ==
    CASE o.kind = "StringIO" -> StringIO_flush(o)
      [] o.kind = "Buffer" -> Buffer_flush(o, d)
      [] o.kind = "Translate" -> Translate_flush(o, d)
      [] OTHER -> FileWrapper_flush(o, d)

close(o, d) ==
    CASE o.kind = "StringIO" -> StringIO_close(o)
      [] o.kind = "Buffer" -> Buffer_close(o, d)
      [] OTHER -> FileWrapper_close(o, d)

_read(o, sizehint, d) ==
    CASE o.kind = "Primitive" -> Primitive__read(o, sizehint, d)
      [] o.kind = "FixedBlockSize" -> FixedBlockSize__read(o, sizehint, d)
      [] o.kind = "PadToBlockSize" -> PadToBlockSize__read(o, sizehint, d)
      [] o.kind = "UnPadToBlockSize" -> UnPadToBlockSize__read(o, sizehint, d)
      [] o.kind = "Buffer" -> Buffer__read(o, sizehint, d)
      [] o.kind = "Translate" -> Translate__read(o, sizehint, d)
      [] o.kind = "Slice" -> Slice__read(o, sizehint, d)
      [] o.kind = "Head" -> Head__read(o, sizehint, d)
      [] o.kind = "BytewiseTranslate" -> BytewiseTranslate__read(o, sizehint, d)
      [] OTHER -> FileWrapper__read(o, sizehint, d)

_write(o, string, flushing, d) ==
    CASE o.kind = "Primitive" -> Primitive__write(o, string, flushing, d)
      [] o.kind = "FixedBlockSize" -> FixedBlockSize__write(o, string, flushing, d)
      [] o.kind = "PadToBlockSize" -> PadToBlockSize__write(o, string, flushing, d)
      [] o.kind = "UnPadToBlockSize" -> UnPadToBlockSize__write(o, string, flushing, d)
      [] o.kind = "Buffer" -> Buffer__write(o, string, flushing, d)
      [] o.kind = "Translate" -> Translate__write(o, string, flushing, d)
      [] o.kind = "Slice" -> Slice__write(o, string, flushing, d)
      [] o.kind = "Head" -> Head__write(o, string, flushing, d)
      [] o.kind = "BytewiseTranslate" -> BytewiseTranslate__write(o, string, flushing, d)
      [] OTHER -> FileWrapper__write(o, string, flushing, d)

_seek(o, offset, whence, d) ==
    CASE o.kind = "Primitive" -> Primitive__seek(o, offset, whence, d)
      [] o.kind = "FixedBlockSize" -> FixedBlockSize__seek(o, offset, whence, d)
      [] o.kind = "PadToBlockSize" -> PadToBlockSize__seek(o, offset, whence, d)
      [] o.kind = "UnPadToBlockSize" -> UnPadToBlockSize__seek(o, offset, whence, d)
      [] o.kind = "Buffer" -> Buffer__seek(o, offset, whence, d)
      [] o.kind = "Translate" -> Translate__seek(o, offset, whence, d)
      [] o.kind = "Slice" -> Slice__seek(o, offset, whence, d)
      [] OTHER -> FileWrapper__seek(o, offset, whence, d)

_tell(o) ==
    CASE o.kind = "Primitive" -> Primitive__tell(o)
      [] o.kind = "PadToBlockSize" -> PadToBlockSize__tell(o)
      [] o.kind = "UnPadToBlockSize" -> UnPadToBlockSize__tell(o)
      [] o.kind = "Buffer" -> Buffer__tell(o)
      [] o.kind = "Translate" -> Translate__tell(o)
      [] o.kind = "Slice" -> Slice__tell(o)
      [] OTHER -> FileWrapper__tell(o)

(***************************************************************************)
(* The state: f is the stream under test and prev what it was before the   *)
(* last call, ref a native stream that receives the same calls, op the     *)
(* last call with ret / refret what it returned on f / on ref and err what *)
(* it raised, failed whether any call raised so far, out the concatenation *)
(* of what the reads returned, nops the number of calls made.              *)
(***************************************************************************)
Seqs(S, n) == UNION {[1..k -> S] : k \in 0..n}

\* a call name(args) with result r on f and rr on ref, the limit-th at most
DoneWithin(limit, name, args, r, rr) ==
    /\ nops < limit
    /\ nops' = nops + 1
    /\ op' = [name |-> name, args |-> args]
    /\ prev' = f
    /\ f' = r.f
    /\ ret' = r.ret
    /\ err' = r.err
    /\ failed' = (failed \/ r.err # NoErr)
    /\ ref' = rr.f
    /\ refret' = rr.ret
    /\ out' = IF name = "read" /\ r.err = NoErr THEN out \o r.ret ELSE out

Done(name, args, r, rr) == DoneWithin(MaxOps, name, args, r, rr)

\* f at the start of a call: the primitives of a Primitive behave as the
\* schedules say during the call and no _write was made yet, a
\* FixedBlockSize has issued nothing yet
Prepared(g, sched, wsched) ==
    IF g.kind = "Primitive" THEN [g EXCEPT !.sched = sched, !.wsched = wsched, !.handed = <<>>]
    ELSE IF g.kind = "FixedBlockSize" THEN [g EXCEPT !.issued = <<>>]
    ELSE g

Scheds == Seqs(0..MaxChunk, MaxSched)

\* the schedules that matter to f
SchedsOf(g) == IF g.kind = "Primitive" THEN Scheds ELSE {<<>>}

Read(n) == \E sched \in SchedsOf(f) :
    Done("read", <<n>>, read(Prepared(f, sched, <<>>), n, RecursionLimit),
         StringIO_read(ref, n))

\* readline() of the reference: up to and including the next newline
StringIO_readline(s) ==
    LET rest == From(s.buf, s.pos)
        i == Find(rest, NL)
        n == IF i < 0 THEN Len(rest) ELSE i + 1
    IN IF s.closed THEN Raise(Called(s), ValueError)
       ELSE Ok([Called(s) EXCEPT !.pos = Min(s.pos, Len(s.buf)) + n], Slice(rest, 0, n))

Readline == \E sched \in SchedsOf(f) :
    Done("readline", <<>>, readline(Prepared(f, sched, <<>>), -1, RecursionLimit),
         StringIO_readline(ref))

Next_ ==
    Done("next", <<>>, next(Prepared(f, <<>>, <<>>), RecursionLimit), StringIO_readline(ref))

Write(string) == \E wsched \in SchedsOf(f) :
    Done("write", <<string>>, write(Prepared(f, <<>>, wsched), string, RecursionLimit),
         StringIO_write(ref, string))

Seek(offset, whence) ==
    Done("seek", <<offset, whence>>, seek(Prepared(f, <<>>, <<>>), offset, whence, RecursionLimit),
         StringIO_seek(ref, offset, whence))

Flush == Done("flush", <<>>, flush(Prepared(f, <<>>, <<>>), RecursionLimit), StringIO_flush(ref))

Close == Done("close", <<>>, close(Prepared(f, <<>>, <<>>), RecursionLimit), StringIO_close(ref))

Tell == Done("tell", <<>>, tell(Prepared(f, <<>>, <<>>)), StringIO_tell(ref))

InitWith(streams) ==
    /\ \E p \in streams : f = p[1] /\ prev = p[1] /\ ref = p[2]
    /\ op = [name |-> "init", args |-> <<>>]
    /\ ret = None /\ refret = None /\ err = NoErr /\ failed = FALSE /\ out = <<>> /\ nops = 0

ReadSizes == {-1} \cup 1..MaxRead

\* the native stream at the bottom of a stack of wrappers
RECURSIVE Leaf(_)
Leaf(o) == IF o.kind = "StringIO" THEN o ELSE Leaf(o.fileobj)

\* the first n bytes of "a\nb\na\nb\n..."
Lines(n) == [i \in 1..n |-> IF i % 2 = 0 THEN NL ELSE IF i % 4 = 1 THEN "a" ELSE "b"]
\* the first n bytes of "abcdefgh"
Letters(n) == SubSeq(<<"a", "b", "c", "d", "e", "f", "g", "h">>, 1, n)

(***************************************************************************)
(* Position: a FileWrapper and a Primitive over a native stream against    *)
(* the native stream itself.                                               *)
(***************************************************************************)
PosContents == {Lines(n) : n \in 0..MaxContent}
PosData == {<<"x">>, <<"x", "y">>}

InitPos == InitWith({<<FileWrapper(StringIO(c), NoMode), StringIO(c)>> : c \in PosContents}
                    \cup {<<Primitive(StringIO(c), 2, g), StringIO(c)>> :
                              c \in PosContents, g \in 1..2})

NextPos ==
    \/ \E n \in ReadSizes : Read(n)
    \/ Readline
    \/ \E s \in PosData : Write(s)
    \/ \E o \in (0 - 1)..(MaxContent + 1), w \in 0..2 : Seek(o, w)

SpecPos == InitPos /\ [][NextPos]_vars

\* C1: after any sequence of read, readline, write and seek calls none of
\* which raised, tell() is the position a native random-access stream
\* reports after the same calls, however the primitives chunk their results.
PositionInvariant == ~failed => (tell(f).err = NoErr /\ tell(f).ret = ref.pos)

PositionWitness ==
    /\ ~failed /\ nops = MaxOps /\ f.kind = "Primitive"
    /\ Truthy(f.sbuffer) /\ ref.pos > 0 /\ out # <<>>

\* C6: read(n) with n > 0 returns the next min(n, remaining) bytes of the
\* stream, as the native stream does, however the primitive read chunks its
\* results, and the bytes read beyond n wait in the read buffer: they are the
\* bytes of the stream that follow.
ReadExact ==
    (op.name = "read" /\ op.args[1] > 0 /\ ~failed) =>
        /\ ret = Slice(ref.buf, tell(prev).ret, tell(prev).ret + op.args[1])
        /\ ret = refret
        /\ (Truthy(f.rbuffer) =>
               f.rbuffer = Slice(ref.buf, ref.pos, ref.pos + Len(f.rbuffer)))

ReadExactWitness ==
    /\ op.name = "read" /\ op.args[1] = 1 /\ ~failed /\ f.kind = "Primitive"
    /\ Len(ret) = 1 /\ Len(f.rbuffer) = 1 /\ nops = MaxOps /\ Len(out) > 1

(***************************************************************************)
(* Padding: a PadToBlockSize over a native stream, and an UnPadToBlockSize *)
(* over a PadToBlockSize over a native stream, read to the end.  ref holds *)
(* the content of the native stream.                                       *)
(***************************************************************************)
PadContents == Seqs({"a", "X", "Z"}, MaxContent)

InitPad ==
    InitWith({<<PadToBlockSize(StringIO(c), bs, NoMode), StringIO(c)>> :
                  c \in PadContents, bs \in 1..MaxBlock}
             \cup {<<UnPadToBlockSize(PadToBlockSize(StringIO(c), bs, NoMode), bs, NoMode),
                     StringIO(c)>> : c \in PadContents, bs \in 1..MaxBlock})

NextPad == \E n \in ReadSizes : Read(n)

SpecPad == InitPad /\ [][NextPad]_vars

\* the last call was a read that reached the end of the stream
AtEOF == op.name = "read" /\ err = NoErr /\ (op.args[1] < 0 \/ Len(ret) < op.args[1])

\* s followed by 'Z' and the fewest 'X' that make the length a multiple of bs
Padded(s, bs) == s \o <<"Z">> \o Rep("X", (bs - ((Len(s) + 1) % bs)) % bs)

\* C10: the reads of a PadToBlockSize stream over content s return, in
\* order, s followed by one padding run 'Z' + 'X'*k of 1 to blocksize bytes
\* that makes the total a multiple of blocksize, and nothing after it; empty
\* content yields 'Z' + 'X'*(blocksize-1).
PaddingOnce ==
    (f.kind = "PadToBlockSize" /\ ~failed) =>
        /\ Len(out) <= Len(Padded(ref.buf, f.blocksize))
        /\ out = SubSeq(Padded(ref.buf, f.blocksize), 1, Len(out))
        /\ AtEOF =>
              /\ out = Padded(ref.buf, f.blocksize)
              /\ Len(out) % f.blocksize = 0
              /\ Len(out) - Len(ref.buf) \in 1..f.blocksize
              /\ (ref.buf = <<>> => out = <<"Z">> \o Rep("X", f.blocksize - 1))

PaddingOnceWitness ==
    /\ f.kind = "PadToBlockSize" /\ ~failed /\ AtEOF /\ nops = MaxOps
    /\ ret = <<>> /\ f.blocksize > 1 /\ Len(ref.buf) > 1
    /\ out = ref.buf \o <<"Z", "X">>

\* C2: reading UnPadToBlockSize(PadToBlockSize(source of s)) to the end of
\* the stream returns exactly s, for every blocksize, every s and every
\* sequence of read sizes.
RoundTrip ==
    (f.kind = "UnPadToBlockSize" /\ ~failed /\ AtEOF) => out = ref.buf

(***************************************************************************)
(* Buffering: a Buffer over a native stream that it reads once, in order,  *)
(* against a native stream that receives the same calls.                   *)
(***************************************************************************)
BufContents == {Letters(n) : n \in 0..MaxContent}
BufModes == {NoMode, {"w", "+"}, {"a", "+"}}
BufData == {<<"x">>, <<"x", "y">>}

InitBuf == InitWith({<<Buffer(StringIO(c), m), StringIO(c)>> : c \in BufContents, m \in BufModes})

NextBuf ==
    \/ \E n \in ReadSizes : Read(n)
    \/ \E s \in BufData : Write(s)
    \/ \E o \in 0..MaxContent, w \in 0..2 : Seek(o - w, w)
    \/ Close

SpecBuf == InitBuf /\ [][NextBuf]_vars

\* C3: whatever read, write and seek calls a Buffer receives before close(),
\* its reads return what those of a native random-access stream with the
\* same initial content return, and close() leaves the inner stream with the
\* content of the native stream.
BufferEquivalent ==
    (f.kind = "Buffer" /\ ~failed) =>
        /\ (op.name = "read" => ret = refret)
        /\ (f.closed => f.fileobj.buf = ref.buf)

(***************************************************************************)
(* Blocks: a FixedBlockSize over a native stream, readable and writable    *)
(* (no mode) or opened for writing only.                                   *)
(***************************************************************************)
BlockContents == {Letters(n) : n \in 0..MaxContent}
BlockModes == {NoMode, {"w"}}
BlockData == {<<"x">>, <<"x", "y">>, <<"x", "y", "z">>}

InitBlock ==
    InitWith({<<FixedBlockSize(StringIO(c), bs, m), StringIO(c)>> :
                  c \in BlockContents, bs \in 1..MaxBlock, m \in BlockModes})

NextBlockSize ==
    \/ \E n \in ReadSizes : Read(n)
    \/ \E s \in BlockData : Write(s)
    \/ \E o \in 0..MaxContent : Seek(o, 0)
    \/ Flush
    \/ Close

SpecBlock == InitBlock /\ [][NextBlockSize]_vars

\* C4: every read FixedBlockSize asks of its inner stream has a negative
\* size or a multiple of blocksize, and every write it sends to the inner
\* stream, those of a flushing _write excepted, a multiple of blocksize.
BlockAligned ==
    f.kind = "FixedBlockSize" =>
        \A i \in 1..Len(f.issued) :
            /\ f.issued[i].call = "read" =>
                   (f.issued[i].size < 0 \/ f.issued[i].size % f.blocksize = 0)
            /\ (f.issued[i].call = "write" /\ ~f.issued[i].flushing) =>
                   f.issued[i].size % f.blocksize = 0

BlockAlignedWitness ==
    /\ f.kind = "FixedBlockSize" /\ f.blocksize = 2 /\ op.name = "write" /\ err = NoErr
    /\ Truthy(f.wbuffer)
    /\ \E i \in 1..Len(f.issued) : f.issued[i] = [call |-> "write", size |-> 2, flushing |-> FALSE]
    /\ \E i \in 1..Len(f.issued) : f.issued[i] = [call |-> "read", size |-> 2, flushing |-> FALSE]

\* the last call was a flush() that had data to write, not whole blocks of it
FlushedRemainder ==
    /\ f.kind = "FixedBlockSize" /\ op.name = "flush" /\ err = NoErr
    /\ Len(Buffered(prev)) % f.blocksize # 0

\* the number of bytes the inner stream holds at the place of the remainder,
\* blocksize at most: none when the stream is not readable
Existing(g) ==
    IF _check_mode(g, "r")
    THEN Min(g.blocksize,
             Max(0, Len(g.fileobj.buf)
                    - (g.fileobj.pos + FixedBlockSize__round_down(g, Len(Buffered(g))))))
    ELSE 0

LifeContents == {Lines(n) : n \in 0..MaxContent}
LifeData == {<<"x">>, <<"x", "y">>}

LifeStreams(c) ==
    {FileWrapper(StringIO(c), NoMode), Primitive(StringIO(c), 2, 2),
     Buffer(StringIO(c), {"r"}), Buffer(StringIO(c), {"w", "+"}),
     FixedBlockSize(StringIO(c), 2, {"w"}), FixedBlockSize(StringIO(c), 2, {"r"}),
     PadToBlockSize(StringIO(c), 2, {"r"}),
     UnPadToBlockSize(StringIO(Padded(c, 2)), 2, {"r"})}

InitLife == InitWith(UNION {{<<g, StringIO(c)>> : g \in LifeStreams(c)} : c \in LifeContents})

NextLife ==
    \/ \E n \in ReadSizes : Read(n)
    \/ Readline
    \/ Next_
    \/ \E s \in LifeData : Write(s)
    \/ \E o \in {0, 1}, w \in 0..2 : Seek(o - w, w)
    \/ Tell
    \/ Flush
    \/ Close

SpecLife == InitLife /\ [][NextLife]_vars

\* an object without the counts of the calls its streams have received,
\* the schedules of its primitives and the list of the requests it issued
RECURSIVE Uncounted(_)
Uncounted(o) ==
    IF o.kind = "StringIO" THEN [o EXCEPT !.calls = 0]
    ELSE IF o.kind = "Buffer"
         THEN [o EXCEPT !.fileobj = Uncounted(@), !.buffer = Uncounted(@)]
    ELSE [Prepared(o, <<>>, <<>>) EXCEPT !.fileobj = Uncounted(@)]

\* C7: close() on a closed stream raises nothing and changes nothing: the
\* stream stays closed, its buffers and its inner stream are what they were
\* and the inner stream has received no further write.
CloseTwice ==
    (prev.closed /\ op.name = "close") =>
        /\ err = NoErr
        /\ f.closed
        /\ Uncounted(f) = Uncounted(prev)
        /\ Leaf(f).writes = Leaf(prev).writes

CloseTwiceWitness ==
    /\ prev.closed /\ op.name = "close" /\ nops = MaxOps /\ ~failed
    /\ f.kind = "FixedBlockSize" /\ Leaf(f).writes > 1 /\ Leaf(f).buf = <<"x">>

\* C8: a closed stream stays closed, and read, readline, next and write on
\* it raise the closed-stream error and leave the stream and its inner
\* stream as they were.
ClosedStays ==
    prev.closed =>
        /\ f.closed
        /\ op.name \in {"read", "readline", "next", "write"} =>
               /\ err = IOError
               /\ Prepared(f, <<>>, <<>>) = Prepared(prev, <<>>, <<>>)

ClosedStaysWitness ==
    /\ prev.closed /\ op.name = "write" /\ err = IOError /\ nops = MaxOps
    /\ f.kind = "Buffer" /\ f.fileobj.buf = <<"x">> /\ f.fileobj.closed

\* C9: every call but close() on a closed stream raises an error: seek,
\* tell and flush as well as read and write.
ClosedRaises ==
    (prev.closed /\ op.name # "close") => err # NoErr

(***************************************************************************)
(* Copying: the bytes of a source are written, a chunk per call, to a      *)
(* PadToBlockSize or UnPadToBlockSize over an empty native stream, which   *)
(* is then flushed or closed.  ref is the source: its position is the      *)
(* number of bytes written so far.  The source of an UnPadToBlockSize      *)
(* holds a byte string s, that of a PadToBlockSize s and its padding.      *)
(***************************************************************************)
CopyModes == {NoMode, {"w"}}

InitCopy ==
    InitWith({<<UnPadToBlockSize(StringIO(<<>>), bs, m), StringIO(c)>> :
                  c \in PadContents, bs \in 1..MaxBlock, m \in CopyModes}
             \cup {<<PadToBlockSize(StringIO(<<>>), bs, m), StringIO(Padded(c, bs))>> :
                       c \in PadContents, bs \in 1..MaxBlock, m \in CopyModes})

\* write the next n bytes of the source
WriteNext(n) ==
    /\ ref.pos < Len(ref.buf)
    /\ DoneWithin(MaxWrites + 2, "write", <<Slice(ref.buf, ref.pos, ref.pos + n)>>,
                  write(f, Slice(ref.buf, ref.pos, ref.pos + n), RecursionLimit),
                  StringIO_read(ref, n))

\* flush once the source is exhausted
FlushCopy ==
    /\ ref.pos = Len(ref.buf)
    /\ DoneWithin(MaxWrites + 2, "flush", <<>>, flush(f, RecursionLimit), Ok(ref, None))

\* close once the source is exhausted
CloseCopy ==
    /\ ref.pos = Len(ref.buf)
    /\ DoneWithin(MaxWrites + 2, "close", <<>>, close(f, RecursionLimit), Ok(ref, None))

NextCopy ==
    \/ \E n \in 1..(MaxContent + MaxBlock) : WriteNext(n)
    \/ FlushCopy
    \/ CloseCopy

SpecCopy == InitCopy /\ [][NextCopy]_vars

\* the source has been written and the stream flushed or closed
Flushed == op.name \in {"flush", "close"} /\ ~failed

\* C11: once a byte string s has been written through an UnPadToBlockSize,
\* in any chunking, and the stream flushed or closed, the inner stream
\* holds s followed by its padding 'Z' + 'X'*k, a whole number of blocks,
\* also when s is empty or a whole number of blocks itself.
PaddedOnFlush ==
    (f.kind = "UnPadToBlockSize" /\ Flushed) =>
        /\ Leaf(f).buf = Padded(ref.buf, f.blocksize)
        /\ Len(Leaf(f).buf) % f.blocksize = 0

\* a padded byte string without its padding
Unpadded(p) == Slice(p, 0, RFind(p, "Z"))

\* C12: while s and its padding are written through a write-mode
\* PadToBlockSize, in any chunking, the inner stream holds a prefix of s
\* and the bytes written that it does not hold are in the write buffer;
\* once the stream is flushed or closed the inner stream holds exactly s,
\* whatever 'Z' bytes s contains.
HeldBack ==
    (f.kind = "PadToBlockSize" /\ ~failed) =>
        /\ Len(Leaf(f).buf) <= Len(Unpadded(ref.buf))
        /\ Leaf(f).buf = Slice(Unpadded(ref.buf), 0, Len(Leaf(f).buf))
        /\ op.name = "write" => Leaf(f).buf \o Str(f.wbuffer) = Slice(ref.buf, 0, ref.pos)
        /\ Flushed => Leaf(f).buf = Unpadded(ref.buf)

HeldBackWitness ==
    /\ f.kind = "PadToBlockSize" /\ Flushed /\ op.name = "flush" /\ nops = MaxWrites + 1
    /\ f.blocksize = 3 /\ f.mode = {"w"}
    /\ ref.buf = <<"a", "Z", "Z">>
    /\ Leaf(prev).buf = <<>> /\ prev.wbuffer = <<"a", "Z", "Z">>
    /\ Leaf(f).buf = <<"a", "Z">>

(***************************************************************************)
(* Translating there and back: the bytes of a source are written, a chunk  *)
(* per call, through a Translate with a function wfunc to an empty native  *)
(* stream; the Translate is closed and what the native stream holds is     *)
(* read through a Translate with the function that undoes wfunc.  ref is   *)
(* the source, out what has been read back.                                *)
(***************************************************************************)
TransContents == Seqs({"a", "b"}, MaxContent)

TransFuncs == {"rot13", "shift", "reverse"}

InitTrans ==
    InitWith({<<Translate(StringIO(<<>>), {"w"}, None, func, 1024), StringIO(c)>> :
                  c \in TransContents, func \in TransFuncs})

\* close the writer and open a reader on what it has written
Reopen ==
    /\ f.mode = {"w"}
    /\ ref.pos = Len(ref.buf)
    /\ DoneWithin(MaxWrites + 1, "reopen", <<>>,
                  Bind(close(f, RecursionLimit),
                       LAMBDA r : Ok(Translate(StringIO(r.f.fileobj.buf), {"r"},
                                               Inverse(f.wfunc), None, 1024), None)),
                  Ok(ref, None))

\* read n bytes back
ReadBack(n) ==
    /\ f.mode = {"r"}
    /\ DoneWithin(MaxWrites + 1 + MaxOps, "read", <<n>>, read(f, n, RecursionLimit),
                  Ok(ref, None))

NextTrans ==
    \/ \E n \in 1..MaxContent : WriteNext(n)
    \/ Reopen
    \/ \E n \in ReadSizes : ReadBack(n)

SpecTrans == InitTrans /\ [][NextTrans]_vars

\* C13 (as the code has it): when s has been written through a Translate
\* whose function translates byte by byte, in any chunking, reading what
\* was written through a Translate with the inverse function, with any
\* read sizes, returns s.
TranslateRoundTrip ==
    (f.mode = {"r"} /\ f.rfunc \in Bytewise /\ ~failed) =>
        /\ Len(out) <= Len(ref.buf)
        /\ out = SubSeq(ref.buf, 1, Len(out))
        /\ AtEOF => out = ref.buf

TranslateRoundTripWitness ==
    /\ f.mode = {"r"} /\ f.rfunc = "unshift" /\ ~failed /\ AtEOF
    /\ ref.buf = <<"a", "b", "b">> /\ out = ref.buf /\ Leaf(f).buf = <<"b", "c", "c">>
    /\ f.applied = 2 /\ nops = MaxWrites + 3

\* C13 (as stated): the same for every stateless function that has an
\* inverse, also one that does not translate byte by byte.
TranslateRoundTripAny ==
    (f.mode = {"r"} /\ ~failed /\ AtEOF) => out = ref.buf

(***************************************************************************)
(* Seeking in translated streams: a Translate (which re-reads from the     *)
(* start in chunks of bufsize bytes) and a BytewiseTranslate over a native *)
(* stream that holds the translation of a content, against a native        *)
(* stream that holds the content and receives the same calls.              *)
(***************************************************************************)
SeekContents == {Letters(n) : n \in 0..MaxContent}

SeekData == {<<"n">>, <<"n", "o">>}

SeekFuncs == {"noop", "rot13"}

InitSeek ==
    InitWith({<<Translate(StringIO(Apply(func, c)), NoMode, func, func, bufsize), StringIO(c)>> :
                  c \in SeekContents, func \in SeekFuncs, bufsize \in {MaxChunk, 1024}}
             \cup {<<BytewiseTranslate(StringIO(Apply("rot13", c)), NoMode, "rot13", "rot13"),
                     StringIO(c)>> : c \in SeekContents})

NextSeek ==
    \/ \E n \in ReadSizes : Read(n)
    \/ \E string \in SeekData : Write(string)
    \/ \E k \in 0..(MaxContent + 1) : Seek(k, 0)

SpecSeek == InitSeek /\ [][NextSeek]_vars

\* the last call was seek(k, 0) with k inside the stream
SeekInside ==
    op.name = "seek" /\ op.args[2] = 0 /\ op.args[1] >= 0 /\ op.args[1] <= Len(ref.buf)

\* C14: seek(k, 0) on a Translate with a stateless function, for k from 0
\* to the length of the stream, succeeds, leaves tell() = k, and a read
\* after it returns the translated content from offset k, whatever bufsize.
TranslateSeek ==
    (f.kind = "Translate" /\ SeekInside) =>
        /\ err = NoErr
        /\ tell(f).ret = op.args[1]
        /\ read(f, -1, RecursionLimit).ret = From(ref.buf, op.args[1])

\* C15: seek(k) on a BytewiseTranslate is the seek of the wrapped stream:
\* the wrapped stream receives a flush and a seek to k and no other call (no
\* read), no translation function is called, and afterwards tell() is k and
\* a read returns the translation of the wrapped stream's bytes from k.
BytewiseSeek ==
    (f.kind = "BytewiseTranslate" /\ op.name = "seek") =>
        /\ err = NoErr
        /\ f.applied = prev.applied
        /\ Leaf(f) = StringIO_seek(StringIO_flush(Leaf(prev)).f, op.args[1], 0).f
        /\ tell(f).ret = op.args[1]
        /\ read(f, -1, RecursionLimit).ret = Apply(f.rfunc, From(Leaf(f).buf, op.args[1]))

BytewiseSeekWitness ==
    /\ f.kind = "BytewiseTranslate" /\ op = [name |-> "seek", args |-> <<2, 0>>]
    /\ Leaf(prev).buf = <<"n", "o", "p">> /\ Leaf(prev).pos = 3 /\ prev.applied = 1
    /\ Leaf(f).pos = 2 /\ Leaf(f).calls = Leaf(prev).calls + 2
    /\ read(f, -1, RecursionLimit).ret = <<"c">>
    /\ err = NoErr /\ nops = 2

(***************************************************************************)
(* A view: a Slice without resizing over [start, stop) of a native stream, *)
(* read and sought, against a native stream that holds those bytes.        *)
(***************************************************************************)
SliceContents == {Letters(n) : n \in 0..(MaxContent + 2)}

\* <<contents, start, stop>> with 0 <= start <= stop <= len(contents)
Views == {v \in SliceContents \X (0..(MaxContent + 2)) \X (0..(MaxContent + 2)) :
              v[2] <= v[3] /\ v[3] <= Len(v[1])}

InitView ==
    InitWith({<<Slice_init(StringIO(v[1]), v[2], TRUE, v[3], NoMode, FALSE),
                StringIO(Slice(v[1], v[2], v[3]))>> : v \in Views})

NextView ==
    \/ \E n \in ReadSizes : Read(n)
    \/ \E k \in (-1)..(MaxContent + 1), w \in 0..2 : Seek(k, w)
    \/ Tell

SpecView == InitView /\ [][NextView]_vars

SliceData == {<<"x">>, <<"x", "y", "z">>}

\* <<contents, start, stop>> with 0 <= start <= stop and start <= len(contents),
\* for contents of MaxContent bytes or more
Portions == {v \in SliceContents \X (0..(MaxContent + 2)) \X (0..(MaxContent + 2)) :
                 v[2] <= v[3] /\ v[2] <= Len(v[1]) /\ Len(v[1]) >= MaxContent}

InitSlice ==
    InitWith({<<Slice_init(StringIO(v[1]), v[2], TRUE, v[3], NoMode, resizable), StringIO(v[1])>> :
                  v \in Portions, resizable \in BOOLEAN})

NextSlice ==
    \/ \E n \in ReadSizes : Read(n)
    \/ \E string \in SliceData : Write(string)
    \/ \E k \in {-1, 0, 1, MaxContent + 1}, w \in 0..2 : Seek(k, w)
    \/ Flush

SpecSlice == InitSlice /\ [][NextSlice]_vars

\* the offset in the wrapped stream at which a Slice g is positioned
Offset(g) == g.start + tell(g).ret

\* string with data written over it at offset p
Overwritten(string, p, data) ==
    IF data = <<>> THEN string
    ELSE IF p > Len(string) THEN string \o Rep(NUL, p - Len(string)) \o data
    ELSE Slice(string, 0, p) \o data \o From(string, p + Len(data))

\* C17: a write through a Slice that is not resizable and that would end
\* beyond stop writes the bytes that fit before stop and raises IOError; no
\* call changes the bytes of the wrapped stream before start or from stop
\* on, or changes stop.
SliceBounded ==
    ~f.resizable =>
        /\ (op.name = "write" /\ Offset(prev) + Len(op.args[1]) > prev.stop) =>
               /\ err = IOError
               /\ Leaf(f).buf = Overwritten(Leaf(prev).buf, Offset(prev),
                                            Slice(op.args[1], 0, prev.stop - Offset(prev)))
        /\ Slice(Leaf(f).buf, 0, f.start) = Slice(Leaf(prev).buf, 0, f.start)
        /\ From(Leaf(f).buf, f.stop) = From(Leaf(prev).buf, f.stop)
        /\ f.stop = prev.stop

SliceBoundedWitness ==
    /\ f.kind = "Slice" /\ ~f.resizable /\ f.start = 1 /\ f.stop = 3
    /\ op = [name |-> "write", args |-> << <<"x", "y", "z">> >>] /\ err = IOError
    /\ Leaf(prev).buf = Letters(5) /\ Offset(prev) = 2
    /\ Leaf(f).buf = <<"a", "b", "x", "d", "e">> /\ Offset(f) = 3

\* C18: a write through a resizable Slice that ends beyond stop writes all
\* of the data and sets stop to the offset in the wrapped stream at which
\* the write ended.
SliceResized ==
    (f.resizable /\ op.name = "write" /\ Offset(prev) + Len(op.args[1]) > prev.stop) =>
        /\ err = NoErr
        /\ Leaf(f).buf = Overwritten(Leaf(prev).buf, Offset(prev), op.args[1])
        /\ f.stop = Offset(prev) + Len(op.args[1])
        /\ Leaf(f).pos = f.stop

SliceResizedWitness ==
    /\ f.kind = "Slice" /\ f.resizable /\ f.start = 1 /\ prev.stop = 3 /\ f.stop = 4
    /\ op = [name |-> "write", args |-> << <<"x", "y", "z">> >>] /\ err = NoErr
    /\ Leaf(prev).buf = Letters(5) /\ Offset(prev) = 1
    /\ Leaf(f).buf = <<"a", "x", "y", "z", "e">> /\ nops = 1

\* C19: a seek with whence 1 or 2 on a stream whose primitive seek raises
\* NotImplementedError for them raises nothing: after seek(o, 1) tell() is
\* the previous tell() + o and after seek(o, 2) it is the length of the
\* stream + o (where that is no negative position), also when the read
\* buffer or the shadow buffer held bytes at the call.
SeekEmulated ==
    (f.kind = "Primitive" /\ op.name = "seek" /\ op.args[2] \in {1, 2}) =>
        /\ err = NoErr
        /\ (op.args[2] = 1 /\ tell(prev).ret + op.args[1] >= 0) =>
               tell(f).ret = tell(prev).ret + op.args[1]
        /\ (op.args[2] = 2 /\ Len(ref.buf) + op.args[1] >= 0) =>
               tell(f).ret = Len(ref.buf) + op.args[1]

SeekEmulatedWitness ==
    /\ f.kind = "Primitive" /\ op = [name |-> "seek", args |-> <<-1, 2>>]
    /\ Truthy(prev.sbuffer) /\ err = NoErr
    /\ Len(ref.buf) = 3 /\ tell(prev).ret = 1 /\ tell(f).ret = 2 /\ nops = 2

(***************************************************************************)
(* Flushing: streams whose flushing _write writes everything or fails to   *)
(* write the last bytes it is given.                                       *)
(***************************************************************************)
FlushData == {<<"x">>, <<"x", "y">>}

InitFlush ==
    InitWith({<<Reluctant(StringIO(c), 2, gran, keeps), StringIO(c)>> :
                  c \in PosContents, gran \in 1..2, keeps \in 0..2})

NextFlush ==
    \/ \E n \in ReadSizes : Read(n)
    \/ \E string \in FlushData : Write(string)
    \/ \E k \in 0..MaxContent : Seek(k, 0)
    \/ Flush

SpecFlush == InitFlush /\ [][NextFlush]_vars

\* C20: a flush() with bytes in the shadow buffer or the write buffer makes
\* one call of _write, with the shadow buffer followed by the write buffer
\* and flushing true; if that call returns bytes, flush() raises IOError and
\* calls _write no more.  (With both buffers empty it calls nothing.)
FlushOnce ==
    (op.name = "flush" /\ Buffered(prev) # <<>>) =>
        /\ f.handed = <<[string |-> Buffered(prev), flushing |-> TRUE]>>
        /\ Leaf(f).writes = Leaf(prev).writes + 1
        /\ err = IF prev.keeps > 0 THEN IOError ELSE NoErr

FlushOnceWitness ==
    /\ op.name = "flush" /\ err = IOError /\ f.keeps = 1
    /\ prev.wbuffer = <<"y">> /\ Buffered(prev) = <<"y">>
    /\ f.handed = <<[string |-> <<"y">>, flushing |-> TRUE]>>
    /\ Leaf(f).buf = Leaf(prev).buf /\ nops = 2

(***************************************************************************)
(* Modes: a FileWrapper and a FixedBlockSize with each access mode, and    *)
(* with none, over a native stream.                                        *)
(***************************************************************************)
Modes == {NoMode, {"r"}, {"w"}, {"a"}, {"r", "+"}, {"w", "+"}, {"a", "+"}}

ModeData == {<<"x">>, <<"x", "y", "z">>}

InitMode ==
    InitWith({<<FileWrapper(StringIO(c), m), StringIO(c)>> : c \in PosContents, m \in Modes}
             \cup {<<FixedBlockSize(StringIO(c), 2, m), StringIO(c)>> :
                       c \in PosContents, m \in Modes})

NextMode ==
    \/ \E n \in ReadSizes : Read(n)
    \/ \E string \in ModeData : Write(string)
    \/ \E k \in 0..MaxContent : Seek(k, 0)

SpecMode == InitMode /\ [][NextMode]_vars

\* the last call was a read() or write() the mode string does not allow:
\* a read without 'r' or '+', a write without 'w', 'a' or '+'
Excluded ==
    /\ prev.mode # NoMode
    /\ \/ op.name = "read" /\ prev.mode \cap {"r", "+"} = {}
       \/ op.name = "write" /\ prev.mode \cap {"w", "a", "+"} = {}

\* C21: a read() or write() that the mode string excludes raises IOError
\* and leaves the three buffers and the wrapped stream as they were, the
\* wrapped stream having received no call; without a mode attribute no
\* read() or write() raises that error, and those of a FileWrapper do what
\* they do on the wrapped stream.
ModeGate ==
    /\ Excluded =>
           /\ err = IOError
           /\ f.rbuffer = prev.rbuffer /\ f.wbuffer = prev.wbuffer /\ f.sbuffer = prev.sbuffer
           /\ f.fileobj = prev.fileobj
    /\ (prev.mode = NoMode /\ op.name \in {"read", "write"}) =>
           /\ err # IOError
           /\ f.kind = "FileWrapper" => (err = NoErr /\ ret = refret /\ Leaf(f).buf = ref.buf)

ModeGateWitness ==
    /\ Excluded /\ op.name = "write" /\ f.kind = "FixedBlockSize" /\ f.mode = {"r"}
    /\ err = IOError /\ Len(f.rbuffer) = 1 /\ f.fileobj.pos = 2 /\ nops = 2

\* C22: a write() on a stream with mode 'r+' succeeds, and the bytes written
\* replace the content at the position of the stream.
ReadWriteMode ==
    (prev.mode = {"r", "+"} /\ op.name = "write") =>
        /\ err = NoErr
        /\ f.kind = "FileWrapper" => Leaf(f).buf = ref.buf

(***************************************************************************)
(* Unpadding: an UnPadToBlockSize over a native stream of any content,     *)
(* padded or not, read to the end.                                         *)
(***************************************************************************)
InitUnpad ==
    InitWith({<<UnPadToBlockSize(StringIO(c), bs, NoMode), StringIO(c)>> :
                  c \in PadContents, bs \in 1..MaxBlock})

NextUnpad == \E n \in ReadSizes : Read(n)

SpecUnpad == InitUnpad /\ [][NextUnpad]_vars

\* C23: a read of an UnPadToBlockSize whose wrapped stream holds no byte at
\* all, so no 'Z' either, raises an error.
EmptyIsMalformed ==
    (op.name = "read" /\ Leaf(f).buf = <<>>) => err # NoErr

(***************************************************************************)
(* Writing content that need not end in padding through a PadToBlockSize   *)
(* over an empty native stream: ref is the source of the bytes.            *)
(***************************************************************************)
InitRaw ==
    InitWith({<<PadToBlockSize(StringIO(<<>>), bs, m), StringIO(c)>> :
                  c \in PadContents, bs \in 1..MaxBlock, m \in CopyModes})

SpecRaw == InitRaw /\ [][NextCopy]_vars

\* C24: a flush() of a PadToBlockSize whose pending bytes do not end in a
\* possible padding ('Z' followed by 'X' bytes only, within the last block)
\* raises an error.
NoPaddingIsError ==
    (op.name = "flush" /\ Buffered(prev) # <<>> /\ ~maybePad(prev, Buffered(prev))) =>
        err # NoErr

(***************************************************************************)
(* Appending: a Buffer in an append mode over a native stream positioned   *)
(* at its end, as the tests make it, against that native stream.           *)
(***************************************************************************)
AppendModes == {{"a"}, {"a", "+"}}

AtEnd(s) == StringIO_seek(s, 0, 2).f

InitAppend ==
    InitWith({<<Buffer(AtEnd(StringIO(c)), m), AtEnd(StringIO(c))>> :
                  c \in BufContents, m \in AppendModes})

NextAppend ==
    \/ \E s \in BufData : Write(s)
    \/ Flush
    \/ Close

SpecAppend == InitAppend /\ [][NextAppend]_vars

\* C25: once a Buffer in mode 'a' or 'a+' over a stream positioned at its
\* end is closed after writes, the stream holds its original content followed
\* by the written bytes, as the native stream written at its end does.
AppendKeeps ==
    (op.name = "close" /\ ~failed) => Leaf(f).buf = ref.buf

(***************************************************************************)
(* The temporary file of a Buffer in each mode, over a native stream set   *)
(* up as the tests do (at its end for the append modes), against a native  *)
(* stream with the same content that receives the same calls.              *)
(***************************************************************************)
ScratchModes == {{"w"}, {"a"}, {"r", "+"}, {"w", "+"}, {"a", "+"}}

makeFile(contents, mode) ==
    IF "a" \in mode THEN Buffer(AtEnd(StringIO(contents)), mode)
    ELSE Buffer(StringIO(contents), mode)

InitScratch ==
    InitWith({<<makeFile(c, m), StringIO(c)>> : c \in BufContents, m \in ScratchModes})

NextScratch ==
    \/ \E n \in ReadSizes : Read(n)
    \/ \E s \in BufData : Write(s)
    \/ \E o \in 0..MaxContent : Seek(o, 0)
    \/ Flush
    \/ Close

SpecScratch == InitScratch /\ [][NextScratch]_vars

DrainOnClose ==
    (op.name = "close" /\ "+" \in prev.mode /\ "a" \notin prev.mode) =>
        Leaf(f).buf = ref.buf

(***************************************************************************)
(* Lines: a FileWrapper and a Primitive with a buffer size of 2 over a      *)
(* native stream of letters and newlines, against the native stream.       *)
(***************************************************************************)
IterContents == Seqs({"a", NL}, MaxContent)

InitIter ==
    InitWith({<<FileWrapper(StringIO(c), NoMode), StringIO(c)>> : c \in IterContents}
             \cup {<<Primitive(StringIO(c), 2, g), StringIO(c)>> :
                       c \in IterContents, g \in 1..2})

\* readlines(); the native stream reads all that remains
Readlines == \E sched \in SchedsOf(f) :
    Done("readlines", <<>>, FileLikeBase_readlines(Prepared(f, sched, <<>>), RecursionLimit),
         StringIO_read(ref, -1))

\* readline(size) of the native stream: up to and including the next
\* newline, size bytes at most
StringIO_readline_sized(s, size) ==
    StringIO_read(s, Min(size, Len(StringIO_readline(s).ret)))

ReadlineSized(size) == \E sched \in SchedsOf(f) :
    Done("readline", <<size>>, readline(Prepared(f, sched, <<>>), size, RecursionLimit),
         StringIO_readline_sized(ref, size))

NextIter ==
    \/ \E n \in 1..MaxRead : Read(n)
    \/ Next_
    \/ Readlines

SpecIter == InitIter /\ [][NextIter]_vars

RECURSIVE Joined(_)
Joined(lines) == IF lines = <<>> THEN <<>> ELSE Head(lines) \o Joined(Tail(lines))

\* C28: readlines() ends and returns non-empty lines that, joined, are the
\* content that remained; every line but the last ends with its only
\* newline, the last holds none before its end; next() returns the next line
\* of the native stream and raises StopIteration exactly when none is left.
IterLines ==
    /\ op.name = "readlines" =>
           /\ err = NoErr
           /\ Joined(ret) = refret
           /\ \A i \in 1..Len(ret) :
                  /\ ret[i] # <<>>
                  /\ Find(ret[i], NL) \in {-1, Len(ret[i]) - 1}
                  /\ i < Len(ret) => Find(ret[i], NL) = Len(ret[i]) - 1
    /\ op.name = "next" =>
           /\ err = (IF refret = <<>> THEN StopIteration ELSE NoErr)
           /\ err = NoErr => ret = refret

IterLinesWitness ==
    /\ op.name = "readlines" /\ f.kind = "Primitive" /\ nops = 2
    /\ ret = << <<NL>>, <<"a">> >> /\ Leaf(prev).buf = <<"a", NL, "a">>

\* the same streams under read(size) and readline(size)
NextSized ==
    \/ \E n \in 1..MaxRead : Read(n)
    \/ \E n \in 1..MaxRead : ReadlineSized(n)

SpecSized == InitIter /\ [][NextSized]_vars

\* what is left to read from g: its read buffer, then the wrapped stream
Remaining(g) ==
    (IF Truthy(g.rbuffer) THEN g.rbuffer ELSE <<>>) \o From(Leaf(g).buf, Leaf(g).pos)

\* C29: readline(maxSize) with maxSize > 0 returns what the native stream
\* returns, the remaining content up to and including its first newline and
\* maxSize bytes at most, and leaves the bytes after it to be read.
ReadlineBounded ==
    (op.name = "readline" /\ op.args # <<>>) =>
        /\ err = NoErr
        /\ ret = refret
        /\ Remaining(f) = From(ref.buf, ref.pos)

(***************************************************************************)
(* Chains: a FixedBlockSize of 2 bytes over an empty native stream, alone  *)
(* or under an UnPadToBlockSize, all opened for writing; ref is a native   *)
(* stream that receives the same calls.                                    *)
(***************************************************************************)
ChainData == {<<"x">>, <<"x", "y">>}

InitChain ==
    InitWith({<<FixedBlockSize(StringIO(<<>>), 2, {"w"}), StringIO(<<>>)>>}
             \cup {<<UnPadToBlockSize(FixedBlockSize(StringIO(<<>>), 2, {"w"}), bs, {"w"}),
                     StringIO(<<>>)>> : bs \in 1..MaxBlock})

NextChain ==
    \/ \E s \in ChainData : Write(s)
    \/ Flush
    \/ Close

SpecChain == InitChain /\ [][NextChain]_vars

\* every stream from o down is closed
RECURSIVE AllClosed(_)
AllClosed(o) == o.closed /\ (o.kind = "StringIO" \/ AllClosed(o.fileobj))

\* no wrapper from o down holds bytes in its write or shadow buffer
RECURSIVE NoPending(_)
NoPending(o) == o.kind = "StringIO" \/ (Buffered(o) = <<>> /\ NoPending(o.fileobj))

\* no stream from o down is closed over an open one, or open over a closed one
RECURSIVE ClosedTogether(_)
ClosedTogether(o) ==
    o.kind = "StringIO" \/ (o.closed = o.fileobj.closed /\ ClosedTogether(o.fileobj))

IsData(c) == c \in {"x", "y"}

\* C30: between calls the streams of a chain are all open or all closed; the
\* close() of an open chain raises nothing, leaves every stream of it
\* closed and no byte in a write or shadow buffer, and the native stream
\* holds every byte written (among padding); once the native stream is
\* closed it receives no write and keeps its content.
CloseChain ==
    /\ ClosedTogether(f)
    /\ (op.name = "close" /\ ~prev.closed /\ ~AllClosed(prev)) =>
           /\ err = NoErr
           /\ AllClosed(f)
           /\ NoPending(f)
           /\ SelectSeq(Leaf(f).buf, IsData) = ref.buf
    /\ Leaf(prev).closed =>
           /\ Leaf(f).writes = Leaf(prev).writes
           /\ Leaf(f).buf = Leaf(prev).buf

CloseChainWitness ==
    /\ op.name = "close" /\ nops = 3 /\ f.kind = "UnPadToBlockSize" /\ f.blocksize = 3
    /\ Buffered(prev) = <<"y">> /\ Buffered(prev.fileobj) = <<"x">>
    /\ AllClosed(f) /\ Leaf(f).buf = <<"x", "y", "x", "y", "Z", "X">>

\* C31: when the close() of an open Buffer raises, the inner stream and the
\* temporary file are closed all the same.
CloseReleases ==
    (f.kind = "Buffer" /\ op.name = "close" /\ ~prev.closed /\ err # NoErr) =>
        (f.fileobj.closed /\ f.buffer.closed)

(***************************************************************************)
(* Head: the bytes of a source written, a chunk per call, through a Head   *)
(* over an empty native stream (ref is the source, its position the number *)
(* of bytes written so far), and a Head over the source read to its end.   *)
(***************************************************************************)
HeadContents == Seqs({"a", NL}, MaxContent)

\* the limits: <<hasBytes, bytes, hasLines, lines>>
HeadLimits ==
    {<<hb, b, hl, l>> : hb \in BOOLEAN, b \in 0..MaxContent, hl \in BOOLEAN, l \in 1..2}

InitHeadW ==
    InitWith({<<Head_init(StringIO(<<>>), {"w"}, k[1], k[2], k[3], k[4]), StringIO(c)>> :
                  c \in HeadContents, k \in HeadLimits})

SpecHeadW == InitHeadW /\ [][NextCopy]_vars

InitHeadR ==
    InitWith({<<Head_init(StringIO(c), {"r"}, k[1], k[2], k[3], k[4]), StringIO(c)>> :
                  c \in HeadContents, k \in HeadLimits})

NextHeadR == \E n \in ReadSizes : Read(n)

SpecHeadR == InitHeadR /\ [][NextHeadR]_vars

\* the prefix of string that stops after the bytes, or right after the
\* lines-th newline, that g allows, whichever comes first
HeadPrefix(g, string) ==
    Slice(string, 0,
          Min(IF g.hasBytes THEN Min(g.maxBytes, Len(string)) ELSE Len(string),
              IF g.hasLines /\ Count(string) >= g.maxLines
              THEN NthNewline(string, g.maxLines) + 1 ELSE Len(string)))

\* C32 (writing): after any writes through a Head, the inner stream holds
\* the prefix of the data written that stops after N bytes or right after
\* the L-th newline, whichever comes first.
HeadWritten ==
    (f.kind = "Head" /\ "w" \in f.mode) =>
        Leaf(f).buf = HeadPrefix(f, Slice(ref.buf, 0, ref.pos))

\* C32 (reading): the reads of a Head up to the end return that prefix of
\* the content of the inner stream.
HeadRead ==
    (f.kind = "Head" /\ "r" \in f.mode /\ ~failed /\ AtEOF) =>
        out = HeadPrefix(f, Leaf(f).buf)

\* C33: no call of a Buffer, close() included, calls seek() or tell() on
\* the underlying file.
StreamOnly ==
    f.kind = "Buffer" => Leaf(f).seeks = Leaf(prev).seeks

(***************************************************************************)
(* Draining: a Translate whose reading function passes the data on and has *)
(* a flush method that yields a trailer 'T' once, over a native stream,    *)
(* against a native stream that holds the content and the trailer.         *)
(***************************************************************************)
DrainContents == Seqs({"a", "b"}, MaxContent)

InitDrain ==
    InitWith({<<Translate(StringIO(c), {"r"}, "trailer", None, bufsize),
                StringIO(c \o <<"T">>)>> : c \in DrainContents, bufsize \in {MaxChunk, 1024}})

NextDrain == \E n \in ReadSizes : Read(n)

SpecDrain == InitDrain /\ [][NextDrain]_vars

\* the reads return what those of the native stream return: the content,
\* the trailer once, and '' afterwards
DrainReads ==
    op.name = "read" => (err = NoErr /\ ret = refret)

\* C34: the flush method of the reading function is called once, when the
\* inner stream reports its end, and never again; the reads return the
\* translated content and the trailer once, and '' afterwards.
DrainOnce ==
    f.flushed <= 1 /\ DrainReads

(***************************************************************************)
(* Stateful translation: a Translate whose reading function depends on the *)
(* bytes it has seen (and has a reset attribute) over a native stream,     *)
(* against a native stream that holds a fresh sequential translation.      *)
(***************************************************************************)
ResetContents == Seqs({"a", "b"}, MaxContent)

InitReset ==
    InitWith({<<Translate(StringIO(c), {"r"}, "feedback", None, 1024),
                StringIO(Feedback(0, c))>> : c \in ResetContents})

NextReset ==
    \/ \E n \in ReadSizes : Read(n)
    \/ \E k \in 0..MaxContent : Seek(k, 0)

SpecReset == InitReset /\ [][NextReset]_vars

\* C35: after seek(k, 0) on a Translate with a stateful reading function,
\* for k within the stream, a read returns the bytes from offset k of a
\* fresh sequential read of the stream.
SeekResets ==
    (op.name = "seek" /\ op.args[1] <= Len(ref.buf)) =>
        /\ err = NoErr
        /\ read(f, -1, RecursionLimit).ret = From(ref.buf, op.args[1])

SeekBeyond ==
    (/\ f.kind = "FixedBlockSize" /\ op.name = "seek" /\ ~prev.closed
     /\ op.args[1] > Len(Leaf(f).buf) /\ err = NoErr) =>
        /\ tell(f).ret = op.args[1]
        /\ Len(f.sbuffer) = op.args[1] - FixedBlockSize__round_down(f, op.args[1])
        /\ \A i \in 1..Len(f.sbuffer) :
               f.sbuffer[i] = IF FixedBlockSize__round_down(f, op.args[1]) + i <= Len(Leaf(f).buf)
                              THEN Leaf(f).buf[FixedBlockSize__round_down(f, op.args[1]) + i]
                              ELSE NUL


\* C38: a flush() on a FixedBlockSize in a readable mode whose write buffer
\* holds a remainder that is not whole blocks ends without an error, has
\* issued exactly one flushing write to the inner stream, and leaves the
\* write buffer empty.
FlushRemainderOnce ==
    (/\ f.kind = "FixedBlockSize" /\ op.name = "flush" /\ ~prev.closed
     /\ _check_mode(prev, "r") /\ Len(Buffered(prev)) % prev.blocksize # 0)
    => /\ err = NoErr
       /\ ~Truthy(f.wbuffer)
       /\ Cardinality({i \in 1..Len(f.issued) :
                          f.issued[i].call = "write" /\ f.issued[i].flushing}) = 1

(***************************************************************************)
(* Partial writes: a stream whose _write accepts a prefix of what it is    *)
(* given, over an empty native stream, against a native stream that takes  *)
(* every write whole.                                                      *)
(***************************************************************************)
PartialData == {<<"x">>, <<"y", "z">>}

InitPartial == InitWith({<<Primitive(StringIO(<<>>), 2, gran), StringIO(<<>>)>> : gran \in 1..2})

NextPartial ==
    \/ \E string \in PartialData : Write(string)
    \/ Flush

SpecPartial == InitPartial /\ [][NextPartial]_vars

\* C39: the bytes _write has accepted so far, followed by the bytes write()
\* holds back for the next call, are the data passed to write() in order;
\* after a flush() nothing is held back, so the bytes accepted are that data.
PartialWrites ==
    /\ err = NoErr
    /\ Leaf(f).buf \o Buffered(f) = ref.buf
    /\ op.name = "flush" => (Buffered(f) = <<>> /\ Leaf(f).buf = ref.buf)

PartialWritesWitness ==
    /\ op.name = "flush" /\ nops = 3 /\ Buffered(prev) = <<"z", "x">>
    /\ Leaf(prev).buf = <<"y">> /\ Leaf(f).buf = <<"y", "z", "x">>


(***************************************************************************)
(* Whole blocks: a FixedBlockSize over a native stream that holds whole    *)
(* blocks, against the native stream itself.                               *)
(***************************************************************************)
WholeData == {<<"x">>, <<"x", "y">>}

InitWhole ==
    InitWith({<<FixedBlockSize(StringIO(Letters(n * bs)), bs, NoMode), StringIO(Letters(n * bs))>> :
                  n \in 0..2, bs \in 1..2})

NextWhole ==
    \/ \E n \in ReadSizes : Read(n)
    \/ \E s \in WholeData : Write(s)
    \/ \E o \in 0..MaxContent : Seek(o, 0)
    \/ Tell
    \/ Flush

SpecWhole == InitWhole /\ [][NextWhole]_vars

\* C40: over a native stream that holds whole blocks, every read, write,
\* seek, tell and flush of a FixedBlockSize returns what the same call on the
\* native stream returns, and after a flush the inner stream holds what the
\* native stream holds.
WholeBlocksTransparent ==
    /\ err = NoErr
    /\ ret = refret
    /\ op.name = "flush" => Leaf(f).buf = ref.buf

====
